---- MODULE Spec2Model ----
(***************************************************************************)
(* Model of the softgames-challenge showcase: the asset preloader          *)
(* (src/core/AssetLoader.ts), the scene host (core/GameManager.ts,         *)
(* ui/GameScene.ts) and the three game scenes' per-frame logic.            *)
(*                                                                         *)
(* JavaScript runs one task at a time.  Every action below is one task of  *)
(* the event loop (an I/O completion, a timer, an input event, a frame of  *)
(* the ticker) together with the synchronous code it runs; the resumption  *)
(* of an async function after `await Promise.all(...)` is a step of its    *)
(* own.                                                                    *)
(***************************************************************************)
EXTENDS Integers, Sequences, FiniteSets, TLC

VARIABLES loader, host, ace, magic, flame, render

vars == <<loader, host, ace, magic, flame, render>>
sceneVars == <<host, ace, magic, flame, render>>

(***************************************************************************)
(* Bounds of the model.                                                    *)
(***************************************************************************)
\* number of sprite images of the manifest that are modelled (7 in the source)
NumRegular == 1
\* number of audio clips of the manifest that are modelled (11 in the source)
NumAudio == 1
\* largest number of emoji / avatar entries of the remote dialogue document
MaxEmoji == 1
MaxAvatar == 1
\* largest number of entries of the dialogue array of the remote document
NumEntries == 2

(***************************************************************************)
(* ASSET LOADER                                                            *)
(***************************************************************************)
regularAssets == 1..NumRegular
backgroundVideoAssets == {"space"}
dialogueAssets == {"magicwords"}
particleConfigAssets == {"flame", "flame_hotter"}
audioAssets == 1..NumAudio

\* Keys of Assets.cache written by the loader itself.
VideoKey(v) == <<"background-video-texture", v>>
DialogueKey(d) == <<"dialogue-data", d>>
ParticleKey(c) == <<"particle-config", c>>
EmojiKey == <<"emoji-base64", "">>
AvatarKey == <<"avatar-textures", "">>
CacheKeys ==
    {VideoKey(v) : v \in backgroundVideoAssets}
    \cup {DialogueKey(d) : d \in dialogueAssets}
    \cup {ParticleKey(c) : c \in particleConfigAssets}
    \cup {EmojiKey, AvatarKey}

\* The five loading methods of AssetLoader that call markAssetComplete.
Categories == {"regular", "video", "dialogue", "particle", "audio"}

\* loadAllAssets: totalAssets is the sum of the five manifest lengths.
TotalAssets ==
    Cardinality(regularAssets) + Cardinality(backgroundVideoAssets)
    + Cardinality(dialogueAssets) + Cardinality(particleConfigAssets)
    + Cardinality(audioAssets)

\* The state right after `new GameManager(app)`: the loading screen is on
\* stage, loadAllAssets has run up to its `await Promise.all`, every load of
\* every category is in flight.
LoaderInit ==
    [ totalAssets     |-> TotalAssets,
      completedAssets |-> 0,
      progressCalls   |-> 0,            \* calls of loadingScene.updateProgress
      marked          |-> [c \in Categories |-> 0],  \* markAssetComplete calls, by calling method
      lastProgress    |-> [num |-> 0, den |-> TotalAssets],
      regular   |-> [a \in regularAssets |-> "pending"],
      video     |-> [v \in backgroundVideoAssets |-> "pending"],
      dialogue  |-> [d \in dialogueAssets |-> "fetching"],
      emoji     |-> [i \in 1..MaxEmoji |-> "none"],
      avatar    |-> [i \in 1..MaxAvatar |-> "none"],
      particle  |-> [c \in particleConfigAssets |-> "fetching"],
      audio     |-> [a \in audioAssets |-> "pending"],
      cache     |-> [k \in CacheKeys |-> "unset"],
      cacheSets |-> [k \in CacheKeys |-> 0],  \* calls of Assets.cache.set(k, _)
      pRegular  |-> "pending",
      pVideo    |-> "pending",
      pDialogue |-> "pending",
      pParticle |-> "pending",
      pAudio    |-> "pending",
      pAll      |-> "pending",          \* the promise of loadAllAssets
      remoteEntries |-> NumEntries,     \* length of `dialogue` in the remote document
      timer     |-> "none",             \* the 100 ms timer of startLoading
      screen    |-> "loading" ]         \* "loading" | "menu"

\* AssetLoader.updateProgress
updateProgress(s) ==
    [s EXCEPT !.progressCalls = @ + 1,
              !.lastProgress = [num |-> s.completedAssets, den |-> s.totalAssets]]

\* AssetLoader.markAssetComplete
markAssetComplete(s) ==
    updateProgress([s EXCEPT !.completedAssets = @ + 1])

\* A call `this.markAssetComplete()` made by the loading method of category c.
markFrom(s, c) ==
    [markAssetComplete(s) EXCEPT !.marked[c] = @ + 1]

\* Assets.cache.set(k, v); v is "value" or "null"
cacheSet(s, k, v) ==
    [s EXCEPT !.cache[k] = v, !.cacheSets[k] = @ + 1]

\* Promise.all of loadAllAssets over the five category promises, followed by
\* the then/catch of GameManager.startLoading, which arms the 100 ms timer.
settleAll(s) ==
    LET ps == {s.pRegular, s.pVideo, s.pDialogue, s.pParticle, s.pAudio}
        all == IF s.pAll # "pending" THEN s.pAll
               ELSE IF "rejected" \in ps THEN "rejected"
               ELSE IF ps = {"resolved"} THEN "resolved"
               ELSE "pending"
    IN [s EXCEPT !.pAll = all,
                 !.timer = IF s.pAll = "pending" /\ all # "pending"
                           THEN "armed" ELSE @]

\* loadRegularAssets: the progress callback of Assets.load runs once for each
\* asset that loaded; the promise resolves when all have loaded.
RegularLoaded(a) ==
    /\ loader.regular[a] = "pending"
    /\ LET s1 == markFrom([loader EXCEPT !.regular[a] = "loaded"], "regular")
           s2 == [s1 EXCEPT !.pRegular =
                     IF @ = "pending" /\ \A b \in regularAssets : s1.regular[b] = "loaded"
                     THEN "resolved" ELSE @]
       IN loader' = settleAll(s2)
    /\ UNCHANGED sceneVars

\* loadRegularAssets: Assets.load rejects on the first asset that fails, the
\* progress callback is not run for it, `.catch(error => reject(error))`.
RegularFailed(a) ==
    /\ loader.regular[a] = "pending"
    /\ LET s1 == [loader EXCEPT !.regular[a] = "failed",
                                !.pRegular = IF @ = "pending" THEN "rejected" ELSE @]
       IN loader' = settleAll(s1)
    /\ UNCHANGED sceneVars

\* createBackgroundVideoTexture: the 'loadeddata' listener
VideoLoaded(v) ==
    /\ loader.video[v] = "pending"
    /\ LET s1 == cacheSet([loader EXCEPT !.video[v] = "loaded"], VideoKey(v), "value")
           s2 == markFrom(s1, "video")
           s3 == [s2 EXCEPT !.pVideo =
                     IF @ = "pending" /\ \A w \in backgroundVideoAssets : s2.video[w] = "loaded"
                     THEN "resolved" ELSE @]
       IN loader' = settleAll(s3)
    /\ UNCHANGED sceneVars

\* createBackgroundVideoTexture: the 'error' listener rejects, the catch
\* block logs and rethrows.
VideoError(v) ==
    /\ loader.video[v] = "pending"
    /\ LET s1 == [loader EXCEPT !.video[v] = "failed",
                                !.pVideo = IF @ = "pending" THEN "rejected" ELSE @]
       IN loader' = settleAll(s1)
    /\ UNCHANGED sceneVars

\* `for (i < assets.length) this.markAssetComplete()` of the catch blocks
RECURSIVE markRemaining(_, _, _)
markRemaining(s, c, n) ==
    IF n = 0 THEN s ELSE markRemaining(markFrom(s, c), c, n - 1)

\* `assets.forEach(path => Assets.cache.set(key(path), null))` of the catch blocks
RECURSIVE setAllNull(_, _)
setAllNull(s, keys) ==
    IF keys = {} THEN s
    ELSE LET k == CHOOSE x \in keys : TRUE
         IN setAllNull(cacheSet(s, k, "null"), keys \ {k})

\* loadDialogueData, map callback: fetch and response.json() succeeded; the
\* document lists ne emojies; loadEmojiTextures starts one convertUrlToBase64
\* per emoji and awaits them all.
DialogueFetched(d, ne) ==
    /\ loader.dialogue[d] = "fetching"
    /\ loader' = [loader EXCEPT !.dialogue[d] = "emojis",
                                !.emoji = [i \in 1..MaxEmoji |->
                                             IF i <= ne THEN "pending" ELSE "none"]]
    /\ UNCHANGED sceneVars

\* loadEmojiTextures: one convertUrlToBase64 settles; a failure is caught in
\* the map callback and becomes a null result.
EmojiSettled(i, ok) ==
    /\ loader.emoji[i] = "pending"
    /\ loader' = [loader EXCEPT !.emoji[i] = IF ok THEN "ok" ELSE "failed"]
    /\ UNCHANGED sceneVars

\* loadEmojiTextures resumes after `await Promise.all(emojiPromises)`, caches
\* the emoji map; loadAvatarTextures starts one Texture.fromURL for each of
\* the na avatars the document lists.
EmojisDone(d, na) ==
    /\ loader.dialogue[d] = "emojis"
    /\ \A i \in 1..MaxEmoji : loader.emoji[i] # "pending"
    /\ LET s1 == cacheSet(loader, EmojiKey, "value")
       IN loader' = [s1 EXCEPT !.dialogue[d] = "avatars",
                               !.avatar = [i \in 1..MaxAvatar |->
                                   IF i <= na THEN "pending" ELSE "none"]]
    /\ UNCHANGED sceneVars

\* loadAvatarTextures: one Texture.fromURL settles; a failure is caught.
AvatarSettled(i, ok) ==
    /\ loader.avatar[i] = "pending"
    /\ loader' = [loader EXCEPT !.avatar[i] = IF ok THEN "ok" ELSE "failed"]
    /\ UNCHANGED sceneVars

\* mutant of AvatarsDone: the document is cached and counted without awaiting
\* the avatar fetches
AvatarsDone_noAwait(d) ==
    /\ loader.dialogue[d] = "avatars"
    /\ LET s1 == cacheSet(loader, AvatarKey, "value")
           s2 == cacheSet(s1, DialogueKey(d), "value")
           s3 == markFrom([s2 EXCEPT !.dialogue[d] = "done"], "dialogue")
           s4 == [s3 EXCEPT !.pDialogue = IF @ = "pending" THEN "resolved" ELSE @]
       IN loader' = settleAll(s4)
    /\ UNCHANGED sceneVars

\* loadAvatarTextures resumes after `await Promise.all(avatarPromises)` and
\* caches the avatar map; the map callback of loadDialogueData then caches
\* the document and marks the asset complete.
AvatarsDone(d) ==
    /\ loader.dialogue[d] = "avatars"
    /\ \A i \in 1..MaxAvatar : loader.avatar[i] # "pending"
    /\ LET s1 == cacheSet(loader, AvatarKey, "value")
           s2 == cacheSet(s1, DialogueKey(d), "value")
           s3 == markFrom([s2 EXCEPT !.dialogue[d] = "done"], "dialogue")
           s4 == [s3 EXCEPT !.pDialogue =
                     IF @ = "pending" /\ \A e \in dialogueAssets : s3.dialogue[e] = "done"
                     THEN "resolved" ELSE @]
       IN loader' = settleAll(s4)
    /\ UNCHANGED sceneVars

\* loadDialogueData: fetch fails, the response is not ok or response.json()
\* throws.  The first throw rejects Promise.all(dialoguePromises); the catch
\* block nulls every dialogue key and marks dialogueAssets.length assets.
DialogueFailed(d) ==
    /\ loader.dialogue[d] = "fetching"
    /\ LET s1 == [loader EXCEPT !.dialogue[d] = "failed"]
           s2 == IF s1.pDialogue = "pending"
                 THEN [markRemaining(
                          setAllNull(s1, {DialogueKey(e) : e \in dialogueAssets}),
                          "dialogue", Cardinality(dialogueAssets))
                       EXCEPT !.pDialogue = "resolved"]
                 ELSE s1
       IN loader' = settleAll(s2)
    /\ UNCHANGED sceneVars

\* loadParticleConfigs, map callback: fetch and response.json() succeeded,
\* loadTexturesForConfig starts loading the textures the config names.
ConfigFetched(c) ==
    /\ loader.particle[c] = "fetching"
    /\ loader' = [loader EXCEPT !.particle[c] = "textures"]
    /\ UNCHANGED sceneVars

\* loadParticleConfigs, map callback: the textures loaded; the config is
\* cached and the asset marked complete.  The callback runs to its end also
\* when Promise.all(configPromises) has already rejected.
ConfigLoaded(c) ==
    /\ loader.particle[c] = "textures"
    /\ LET s1 == cacheSet([loader EXCEPT !.particle[c] = "done"], ParticleKey(c), "value")
           s2 == markFrom(s1, "particle")
           s3 == [s2 EXCEPT !.pParticle =
                     IF @ = "pending" /\ \A e \in particleConfigAssets : s2.particle[e] = "done"
                     THEN "resolved" ELSE @]
       IN loader' = settleAll(s3)
    /\ UNCHANGED sceneVars

\* loadParticleConfigs: a fetch, a parse or a texture load fails.  The first
\* throw rejects Promise.all(configPromises); the catch block nulls every
\* particle key and marks particleConfigAssets.length assets.  A later throw
\* of another config is a rejection nobody awaits.
ConfigFailed(c) ==
    /\ loader.particle[c] \in {"fetching", "textures"}
    /\ LET s1 == [loader EXCEPT !.particle[c] = "failed"]
           s2 == IF s1.pParticle = "pending"
                 THEN [markRemaining(
                          setAllNull(s1, {ParticleKey(e) : e \in particleConfigAssets}),
                          "particle", Cardinality(particleConfigAssets))
                       EXCEPT !.pParticle = "resolved"]
                 ELSE s1
       IN loader' = settleAll(s2)
    /\ UNCHANGED sceneVars

\* loadAudioAssets: the `loaded` callback of sound.add (ok), or sound.add
\* throws and the inner catch runs (not ok); both mark the asset complete and
\* resolve its promise.  No inner promise rejects, so the outer catch of
\* loadAudioAssets is dead code.
AudioSettled(a, ok) ==
    /\ loader.audio[a] = "pending"
    /\ LET s1 == markFrom(
                   [loader EXCEPT !.audio[a] = IF ok THEN "loaded" ELSE "failed"],
                   "audio")
           s2 == [s1 EXCEPT !.pAudio =
                     IF \A b \in audioAssets : s1.audio[b] # "pending"
                     THEN "resolved" ELSE @]
       IN loader' = settleAll(s2)
    /\ UNCHANGED sceneVars

\* GameManager.finishLoading, run by the 100 ms timer that the then/catch of
\* startLoading armed: the loading screen is removed and destroyed, the main
\* menu is mounted.
finishLoading ==
    /\ loader.timer = "armed"
    /\ loader' = [loader EXCEPT !.timer = "fired", !.screen = "menu"]
    /\ UNCHANGED sceneVars

LoadNext ==
    \/ \E a \in regularAssets : RegularLoaded(a)
    \/ \E a \in regularAssets : RegularFailed(a)
    \/ \E v \in backgroundVideoAssets : VideoLoaded(v)
    \/ \E v \in backgroundVideoAssets : VideoError(v)
    \/ \E d \in dialogueAssets, ne \in 0..MaxEmoji : DialogueFetched(d, ne)
    \/ \E i \in 1..MaxEmoji, ok \in BOOLEAN : EmojiSettled(i, ok)
    \/ \E d \in dialogueAssets, na \in 0..MaxAvatar : EmojisDone(d, na)
    \/ \E i \in 1..MaxAvatar, ok \in BOOLEAN : AvatarSettled(i, ok)
    \/ \E d \in dialogueAssets : AvatarsDone(d)
    \/ \E d \in dialogueAssets : DialogueFailed(d)
    \/ \E c \in particleConfigAssets : ConfigFetched(c)
    \/ \E c \in particleConfigAssets : ConfigLoaded(c)
    \/ \E c \in particleConfigAssets : ConfigFailed(c)
    \/ \E a \in audioAssets, ok \in BOOLEAN : AudioSettled(a, ok)
    \/ finishLoading

(***************************************************************************)
(* SCENE HOST, TICKER AND THE CARD-DEALING SCENE                           *)
(***************************************************************************)
\* number of cards of the card-dealing scene that are modelled (the source
\* creates 144); at least 10, so that the bottom stack holds the five cards
\* of the win sequence
NumCards == 10
\* number of game scenes the menu starts in one run of the model
MaxScenes == 1

\* ticker.deltaMS of a frame, in ms (PIXI caps it at 100 ms)
DeltaMS == {50, 100}
\* deltaMS of one further frame: the above, or 8 ms (a 120 Hz display)
FrameMS == DeltaMS \cup {8}

Cards == 1..NumCards
\* sizes of the canvas (app.screen.width and height)
Screens == {"landscape", "portrait"}
Games == {"ACE_OF_SHADOWS", "MAGIC_WORDS", "PHOENIX_FLAME"}

\* AceOfShadows field initialisers
boostedMoveInterval == 10
boostedAnimationDuration == 200
winSequenceDealCooldown == 200
winSequenceFlipCooldown == 250
flipAnimationDuration == 500
NumHolders == 5

Front(q) == SubSeq(q, 1, Len(q) - 1)
Last(q) == q[Len(q)]
\* Array.prototype.splice(i, 1), 1-based
RemoveAt(q, i) == SubSeq(q, 1, i - 1) \o SubSeq(q, i + 1, Len(q))
\* Container.setChildIndex(c, children.length - 1)
MoveToEnd(q, c) ==
    LET Other(x) == x # c IN SelectSeq(q, Other) \o <<c>>
Range(q) == {q[i] : i \in 1..Len(q)}

\* A ticker listener: a function and the context it was added with.
Listener(fn, ctx) == [fn |-> fn, ctx |-> ctx]
GameCtx(id) == <<"game", id>>
SceneCtx(id) == <<"scene", id>>

\* Ticker.add(fn, context): appended after the listeners of equal priority
\* and the frame loop is requested again if it was not (Ticker._startIfPossible)
tickerAdd(t, fn, ctx) == [list |-> t.list \o <<Listener(fn, ctx)>>, halted |-> FALSE]

\* Ticker.remove(fn, context): removes the listeners that match both the
\* function and the context (TickerListener.match)
tickerRemove(t, fn, ctx) ==
    LET Keep(l) == ~(l.fn = fn /\ l.ctx = ctx)
    IN [t EXCEPT !.list = SelectSeq(@, Keep)]

\* maxParticles in the two particle config files
fileMaxParticles == 3

\* maxParticles forced on the normal emitter
normalMaxParticles == 10

\* longest life of a particle, in frames
MaxLife == 2

\* The particle config objects: those in Assets.cache and the two fields of
\* the particle scene.
CacheRef(c) == <<"Assets.cache", c>>

ConfigRefs ==
    {CacheRef(c) : c \in particleConfigAssets}
    \cup {<<"PhoenixFlame", "normalEmitterConfig">>,
          <<"PhoenixFlame", "intenseEmitterConfig">>}

\* A config as parsed from its file, and the value of a field that holds no
\* object.
ConfigFile == [pos |-> "file", maxParticles |-> fileMaxParticles, textures |-> "paths"]

ConfigFree == [pos |-> "none", maxParticles |-> 0, textures |-> "none"]

\* The host after finishLoading: the main menu is mounted, no game exists.
HostInit ==
    [ scene    |-> "menu",      \* currentScene: "menu", the game of the GameScene,
                                \* or "none" (null: nothing is mounted)
      gameId   |-> 0,           \* identity of the latest GameScene / Game pair
      ticker   |-> [list |-> <<>>, halted |-> FALSE],
                                \* app.ticker: the listeners in calling order; halted
                                \* when a listener threw and Ticker._tick did not
                                \* request the next frame
      thrown   |-> FALSE,       \* an exception is propagating (within a step only)
      roll     |-> <<0, 0>>,    \* the random draws of the frame (within a step only)
      configs  |-> [r \in ConfigRefs |->
                      IF r \in {CacheRef(c) : c \in particleConfigAssets}
                      THEN ConfigFile ELSE ConfigFree],
                                \* the particle config objects: the cached
                                \* templates and the copies of the live scene
      uncaught |-> FALSE,       \* an exception reached the event loop
      timers   |-> {},          \* pending setTimeout callbacks
      windowListeners |-> {},   \* listeners added to window by games
      screen   |-> "landscape", \* app.screen, the size of the canvas
      staleRan |-> FALSE ]      \* a callback of a destroyed game was run

\* A point of the canvas a card is sent to: the end position of a stack (or
\* the i-th card holder position) computed for the canvas size `layout`, plus
\* dx and dy times scaled(CARD_STACK_OFFSET).
Place(kind, dx, dy, layout) == <<kind, dx, dy, layout>>

\* Fields of an AceOfShadows object.  layout is the canvas size the end
\* positions, holder positions and scaled() lengths were last computed for
\* (onResize).  pos is (x, y) of a card: <<"pile">> for its random place in the
\* pile, <<"path">> for an interpolated point between initialX/Y and
\* targetX/Y with progress < 1, or a Place; target is (targetX, targetY).
\* rot and targetRot are rotation and targetRotation: "random", "path", the
\* angle of a stack ("top" is 1.5 pi, "bottom" is 0.5 pi), of the i-th holder,
\* or "frozen" for a value copied from a rotation on the path.
\* sinceDeal and sinceMark are not fields of the program: they record the
\* deltaMS accumulated since the previous deal, and since the previous deal
\* or speed boost (-1: there was none, or the main pile is empty).
\* moveTimeElapsed / flipTimeElapsed of a card are kept
\* only while the card is in movingCards / flippingCards, and moveCooldown
\* only while mainStack is non-empty: outside that the program never reads
\* them before writing them, and the record holds 0.
AceNone ==
    [ alive |-> FALSE,
      mainStack |-> <<>>, topStack |-> <<>>, bottomStack |-> <<>>,
      movingCards |-> <<>>, flippingCards |-> <<>>, cardsInHolders |-> <<>>,
      children |-> <<>>,
      layout |-> "landscape",
      pos |-> [c \in Cards |-> <<"pile">>],
      target |-> [c \in Cards |-> <<"pile">>],
      rot |-> [c \in Cards |-> "random"],
      targetRot |-> [c \in Cards |-> "random"],
      moveTimeElapsed |-> [c \in Cards |-> 0],
      flipTimeElapsed |-> [c \in Cards |-> 0],
      textureChanged |-> [c \in Cards |-> FALSE],
      texture |-> [c \in Cards |-> 0],
      flippedCards |-> 0, flippedTextures |-> 0,
      moveCooldown |-> 0, dealCardCooldown |-> 0, flipCardCooldown |-> 500,
      sinceDeal |-> -1, sinceMark |-> -1,
      moveInterval |-> 1000, animationDuration |-> 2000,
      currentTarget |-> "top",
      hurryUpButton |-> "none", winButton |-> "none",
      crashed |-> FALSE ]

\* new AceOfShadows(...), buildForeground: createCards pushes the cards
\* 1..NumCards onto mainStack and the card container; both buttons are built,
\* the win button invisible.  texture 0 is the card back, texture i the i-th
\* entry of cardHolderTextures.
AceNew ==
    [AceNone EXCEPT !.alive = TRUE,
                    !.mainStack = [i \in 1..NumCards |-> i],
                    !.children = [i \in 1..NumCards |-> i],
                    !.hurryUpButton = "visible",
                    !.winButton = "hidden"]

\* mutant of dealTopCard: a call on an empty pile still toggles the target
dealTopCard_toggleOnEmpty(s) ==
    IF Len(s.mainStack) = 0
    THEN [s EXCEPT !.currentTarget = IF @ = "top" THEN "bottom" ELSE "top"]
    ELSE
      LET topCard == Last(s.mainStack)
          rest == Front(s.mainStack)
      IN [s EXCEPT
            !.mainStack = rest,
            !.hurryUpButton = IF Len(rest) <= 2 /\ @ # "none" THEN "hidden" ELSE @,
            !.topStack = IF s.currentTarget = "top" THEN Append(@, topCard) ELSE @,
            !.bottomStack = IF s.currentTarget = "top" THEN @ ELSE Append(@, topCard),
            !.currentTarget = IF @ = "top" THEN "bottom" ELSE "top",
            !.target[topCard] =
                IF s.currentTarget = "top"
                THEN Place("top", -Len(s.topStack), Len(s.topStack), s.layout)
                ELSE Place("bottom", Len(s.bottomStack), -Len(s.bottomStack), s.layout),
            !.targetRot[topCard] = s.currentTarget,
            !.moveTimeElapsed[topCard] = 0,
            !.movingCards = Append(@, topCard),
            !.children = MoveToEnd(@, topCard)]

\* mutant of dealTopCard: the target stack is not toggled
dealTopCard_noToggle(s) ==
    IF Len(s.mainStack) = 0 THEN s
    ELSE
      LET topCard == Last(s.mainStack)
          rest == Front(s.mainStack)
      IN [s EXCEPT
            !.mainStack = rest,
            !.hurryUpButton = IF Len(rest) <= 2 /\ @ # "none" THEN "hidden" ELSE @,
            !.topStack = IF s.currentTarget = "top" THEN Append(@, topCard) ELSE @,
            !.bottomStack = IF s.currentTarget = "top" THEN @ ELSE Append(@, topCard),
            !.target[topCard] =
                IF s.currentTarget = "top"
                THEN Place("top", -Len(s.topStack), Len(s.topStack), s.layout)
                ELSE Place("bottom", Len(s.bottomStack), -Len(s.bottomStack), s.layout),
            !.targetRot[topCard] = s.currentTarget,
            !.moveTimeElapsed[topCard] = 0,
            !.movingCards = Append(@, topCard),
            !.children = MoveToEnd(@, topCard)]

\* mutant of dealTopCard: the card is owned by the in-flight list alone and
\* joins no stack
dealTopCard_noPush(s) ==
    IF Len(s.mainStack) = 0 THEN s
    ELSE
      LET topCard == Last(s.mainStack)
          rest == Front(s.mainStack)
      IN [s EXCEPT
            !.mainStack = rest,
            !.hurryUpButton = IF Len(rest) <= 2 /\ @ # "none" THEN "hidden" ELSE @,
            !.currentTarget = IF @ = "top" THEN "bottom" ELSE "top",
            !.target[topCard] =
                IF s.currentTarget = "top"
                THEN Place("top", -Len(s.topStack), Len(s.topStack), s.layout)
                ELSE Place("bottom", Len(s.bottomStack), -Len(s.bottomStack), s.layout),
            !.targetRot[topCard] = s.currentTarget,
            !.moveTimeElapsed[topCard] = 0,
            !.movingCards = Append(@, topCard),
            !.children = MoveToEnd(@, topCard)]

\* mutant of dealTopCard: a card dealt to the bottom stack joins it only as an
\* in-flight card, not as a member of the stack
dealTopCard_noBottomPush(s) ==
    IF Len(s.mainStack) = 0 THEN s
    ELSE
      LET topCard == Last(s.mainStack)
          rest == Front(s.mainStack)
      IN [s EXCEPT
            !.mainStack = rest,
            !.hurryUpButton = IF Len(rest) <= 2 /\ @ # "none" THEN "hidden" ELSE @,
            !.topStack = IF s.currentTarget = "top" THEN Append(@, topCard) ELSE @,
            !.currentTarget = IF @ = "top" THEN "bottom" ELSE "top",
            !.target[topCard] =
                IF s.currentTarget = "top"
                THEN Place("top", -Len(s.topStack), Len(s.topStack), s.layout)
                ELSE Place("bottom", Len(s.bottomStack), -Len(s.bottomStack), s.layout),
            !.targetRot[topCard] = s.currentTarget,
            !.moveTimeElapsed[topCard] = 0,
            !.movingCards = Append(@, topCard),
            !.children = MoveToEnd(@, topCard)]

\* mutant of dealTopCard: the card keeps its index in the card container
dealTopCard_noRaise(s) ==
    IF Len(s.mainStack) = 0 THEN s
    ELSE
      LET topCard == Last(s.mainStack)
          rest == Front(s.mainStack)
      IN [s EXCEPT
            !.mainStack = rest,
            !.hurryUpButton = IF Len(rest) <= 2 /\ @ # "none" THEN "hidden" ELSE @,
            !.topStack = IF s.currentTarget = "top" THEN Append(@, topCard) ELSE @,
            !.bottomStack = IF s.currentTarget = "top" THEN @ ELSE Append(@, topCard),
            !.currentTarget = IF @ = "top" THEN "bottom" ELSE "top",
            !.target[topCard] =
                IF s.currentTarget = "top"
                THEN Place("top", -Len(s.topStack), Len(s.topStack), s.layout)
                ELSE Place("bottom", Len(s.bottomStack), -Len(s.bottomStack), s.layout),
            !.targetRot[topCard] = s.currentTarget,
            !.moveTimeElapsed[topCard] = 0,
            !.movingCards = Append(@, topCard)]

\* AceOfShadows.dealTopCard
dealTopCard(s) ==
    IF Len(s.mainStack) = 0 THEN s
    ELSE
      LET topCard == Last(s.mainStack)
          rest == Front(s.mainStack)
      IN [s EXCEPT
            !.mainStack = rest,
            !.hurryUpButton = IF Len(rest) <= 2 /\ @ # "none" THEN "hidden" ELSE @,
            !.topStack = IF s.currentTarget = "top" THEN Append(@, topCard) ELSE @,
            !.bottomStack = IF s.currentTarget = "top" THEN @ ELSE Append(@, topCard),
            !.currentTarget = IF @ = "top" THEN "bottom" ELSE "top",
            !.target[topCard] =
                IF s.currentTarget = "top"
                THEN Place("top", -Len(s.topStack), Len(s.topStack), s.layout)
                ELSE Place("bottom", Len(s.bottomStack), -Len(s.bottomStack), s.layout),
            !.targetRot[topCard] = s.currentTarget,
            !.moveTimeElapsed[topCard] = 0,
            !.movingCards = Append(@, topCard),
            !.children = MoveToEnd(@, topCard)]

\* AceOfShadows.update, the loop over movingCards from the last index down:
\* progress = min(moveTimeElapsed / animationDuration, 1) is >= 1 exactly when
\* moveTimeElapsed >= animationDuration.
RECURSIVE moveLoop(_, _, _)
moveLoop(s, i, d) ==
    IF i = 0 THEN s
    ELSE
      LET card == s.movingCards[i]
          t == s.moveTimeElapsed[card] + d
          s1 == IF t >= s.animationDuration
                THEN [s EXCEPT !.pos[card] = s.target[card],
                               !.rot[card] = s.targetRot[card],
                               !.movingCards = RemoveAt(@, i),
                               !.moveTimeElapsed[card] =
                                   IF card \in Range(RemoveAt(s.movingCards, i))
                                   THEN t ELSE 0]
                ELSE [s EXCEPT !.pos[card] = <<"path">>,
                               !.rot[card] = "path",
                               !.moveTimeElapsed[card] = t]
      IN moveLoop(s1, i - 1, d)

\* AceOfShadows.update, the loop over flippingCards from the last index down:
\* the texture is swapped once progress >= 0.5, the flip ends at progress >= 1.
RECURSIVE flipLoop(_, _, _)
flipLoop(s, i, d) ==
    IF i = 0 THEN s
    ELSE
      LET card == s.flippingCards[i]
          t == s.flipTimeElapsed[card] + d
          s1 == [s EXCEPT !.flipTimeElapsed[card] = t]
          s2 == IF 2 * t >= flipAnimationDuration /\ ~s1.textureChanged[card]
                THEN [s1 EXCEPT !.texture[card] = s1.flippedTextures + 1,
                                !.textureChanged[card] = TRUE,
                                !.flippedTextures = @ + 1]
                ELSE s1
          s3 == IF t >= flipAnimationDuration
                THEN [s2 EXCEPT !.flippingCards = RemoveAt(@, i),
                                !.flipTimeElapsed[card] = 0]
                ELSE s2
      IN flipLoop(s3, i - 1, d)

\* mutant of update: the cooldown is not set back to the interval after a deal
update_noCooldownReset(s, d) ==
    LET s1 == [s EXCEPT !.moveCooldown = @ - d,
                        !.sinceDeal = IF @ = -1 THEN -1 ELSE @ + d,
                        !.sinceMark = IF @ = -1 THEN -1 ELSE @ + d]
        s2 == IF s1.moveCooldown <= 0 /\ Len(s1.mainStack) > 0
              THEN [dealTopCard(s1) EXCEPT !.sinceDeal = 0, !.sinceMark = 0]
              ELSE s1
        s3 == IF Len(s2.mainStack) = 0
              THEN [s2 EXCEPT !.winButton = IF @ = "hidden" THEN "visible" ELSE @,
                              !.moveCooldown = 0,
                              !.sinceDeal = -1, !.sinceMark = -1]
              ELSE s2
        s4 == moveLoop(s3, Len(s3.movingCards), d)
    IN flipLoop(s4, Len(s4.flippingCards), d)

\* AceOfShadows.update
update(s, d) ==
    LET s1 == [s EXCEPT !.moveCooldown = @ - d,
                        !.sinceDeal = IF @ = -1 THEN -1 ELSE @ + d,
                        !.sinceMark = IF @ = -1 THEN -1 ELSE @ + d]
        s2 == IF s1.moveCooldown <= 0 /\ Len(s1.mainStack) > 0
              THEN [dealTopCard(s1) EXCEPT !.moveCooldown = s1.moveInterval,
                                   !.sinceDeal = 0, !.sinceMark = 0]
              ELSE s1
        s3 == IF Len(s2.mainStack) = 0
              THEN [s2 EXCEPT !.winButton = IF @ = "hidden" THEN "visible" ELSE @,
                              !.moveCooldown = 0,
                              !.sinceDeal = -1, !.sinceMark = -1]
              ELSE s2
        s4 == moveLoop(s3, Len(s3.movingCards), d)
    IN flipLoop(s4, Len(s4.flippingCards), d)

IndexOf(q, c) == CHOOSE i \in 1..Len(q) : q[i] = c

\* AceOfShadows.onResize with updateEndPositions, updateCardHolderPositions
\* and updateCardPositions, for the canvas size z: the cards of the main pile
\* keep their offset from the centre; the cards of the two stacks and of the
\* holders are put on the place of their index, in flight or not.
aceOnResize(s, z) ==
    LET placeOf(c) ==
            IF c \in Range(s.topStack)
            THEN Place("top", -(IndexOf(s.topStack, c) - 1),
                       -(IndexOf(s.topStack, c) - 1), z)
            ELSE IF c \in Range(s.bottomStack)
            THEN Place("bottom", IndexOf(s.bottomStack, c) - 1,
                       IndexOf(s.bottomStack, c) - 1, z)
            ELSE IF c \in Range(s.cardsInHolders)
            THEN Place("holder", IndexOf(s.cardsInHolders, c) - 1, 0, z)
            ELSE s.pos[c]
        rotOf(c) ==
            IF c \in Range(s.topStack) THEN "top"
            ELSE IF c \in Range(s.bottomStack) THEN "bottom"
            ELSE IF c \in Range(s.cardsInHolders) /\ s.rot[c] = "path" THEN "frozen"
            ELSE s.rot[c]
        dealt(c) == c \notin Range(s.mainStack)
    IN [s EXCEPT !.layout = z,
                 !.pos = [c \in Cards |-> placeOf(c)],
                 !.target = [c \in Cards |-> IF dealt(c) THEN placeOf(c) ELSE @[c]],
                 !.rot = [c \in Cards |-> rotOf(c)],
                 !.targetRot = [c \in Cards |-> IF dealt(c) THEN rotOf(c) ELSE @[c]]]

\* mutant of toggleSpeedBoost: the hurry-up button is left in place
toggleSpeedBoost_keepButton(s) ==
    [s EXCEPT !.moveInterval = boostedMoveInterval,
              !.animationDuration = boostedAnimationDuration,
              !.moveCooldown = IF Len(s.mainStack) = 0 THEN 0 ELSE boostedMoveInterval,
              !.sinceMark = IF Len(s.mainStack) = 0 THEN -1 ELSE 0]

\* mutant of toggleSpeedBoost: the flight duration is not shortened
toggleSpeedBoost_intervalOnly(s) ==
    [s EXCEPT !.moveInterval = boostedMoveInterval,
              !.moveCooldown = IF Len(s.mainStack) = 0 THEN 0 ELSE boostedMoveInterval,
              !.sinceMark = IF Len(s.mainStack) = 0 THEN -1 ELSE 0,
              !.hurryUpButton = "none"]

\* AceOfShadows.toggleSpeedBoost
toggleSpeedBoost(s) ==
    [s EXCEPT !.moveInterval = boostedMoveInterval,
              !.animationDuration = boostedAnimationDuration,
              !.moveCooldown = IF Len(s.mainStack) = 0 THEN 0 ELSE boostedMoveInterval,
              !.sinceMark = IF Len(s.mainStack) = 0 THEN -1 ELSE 0,
              !.hurryUpButton = "none"]

\* AceOfShadows.startWinSequence
startWinSequence(w) ==
    [w EXCEPT !.ace.winButton = "none",
              !.host.ticker = tickerAdd(@, "AceOfShadows.dealCardToHolders",
                                        GameCtx(w.host.gameId))]

\* mutant of dealCardToHolders: the dealt card is read from the bottom stack
\* but not popped
dealCardToHolders_noPop(w, d) ==
    LET s == w.ace
        me == GameCtx(w.host.gameId)
    IN
    IF Len(s.cardsInHolders) >= NumHolders
    THEN [w EXCEPT !.host.ticker =
             tickerAdd(tickerRemove(@, "AceOfShadows.dealCardToHolders", me),
                       "AceOfShadows.flipDealtCards", me)]
    ELSE IF s.dealCardCooldown - d > 0
    THEN [w EXCEPT !.ace.dealCardCooldown = @ - d]
    ELSE IF Len(s.bottomStack) = 0
    THEN [w EXCEPT !.ace.dealCardCooldown = @ - d, !.ace.crashed = TRUE,
                   !.host.thrown = TRUE]
    ELSE
      LET cardToDeal == Last(s.bottomStack)
      IN [w EXCEPT
            !.ace.target[cardToDeal] =
                Place("holder", Len(s.cardsInHolders), 0, s.layout),
            !.ace.targetRot[cardToDeal] = <<"holder", Len(s.cardsInHolders)>>,
            !.ace.moveTimeElapsed[cardToDeal] = 0,
            !.ace.cardsInHolders = Append(@, cardToDeal),
            !.ace.movingCards = Append(@, cardToDeal),
            !.ace.dealCardCooldown = winSequenceDealCooldown,
            !.ace.animationDuration = boostedAnimationDuration,
            !.ace.moveInterval = winSequenceDealCooldown - 50,
            !.ace.children = MoveToEnd(@, cardToDeal)]

\* AceOfShadows.dealCardToHolders, a ticker listener.  bottomStack.pop() of
\* an empty stack is undefined and the first use of the card throws.
dealCardToHolders(w, d) ==
    LET s == w.ace
        me == GameCtx(w.host.gameId)
    IN
    IF Len(s.cardsInHolders) >= NumHolders
    THEN [w EXCEPT !.host.ticker =
             tickerAdd(tickerRemove(@, "AceOfShadows.dealCardToHolders", me),
                       "AceOfShadows.flipDealtCards", me)]
    ELSE IF s.dealCardCooldown - d > 0
    THEN [w EXCEPT !.ace.dealCardCooldown = @ - d]
    ELSE IF Len(s.bottomStack) = 0
    THEN [w EXCEPT !.ace.dealCardCooldown = @ - d, !.ace.crashed = TRUE,
                   !.host.thrown = TRUE]
    ELSE
      LET cardToDeal == Last(s.bottomStack)
      IN [w EXCEPT
            !.ace.bottomStack = Front(@),
            !.ace.target[cardToDeal] =
                Place("holder", Len(s.cardsInHolders), 0, s.layout),
            !.ace.targetRot[cardToDeal] = <<"holder", Len(s.cardsInHolders)>>,
            !.ace.moveTimeElapsed[cardToDeal] = 0,
            !.ace.cardsInHolders = Append(@, cardToDeal),
            !.ace.movingCards = Append(@, cardToDeal),
            !.ace.dealCardCooldown = winSequenceDealCooldown,
            !.ace.animationDuration = boostedAnimationDuration,
            !.ace.moveInterval = winSequenceDealCooldown - 50,
            !.ace.children = MoveToEnd(@, cardToDeal)]

\* mutant of flipDealtCards: the cards are flipped from the last holder to the
\* first
flipDealtCards_lastFirst(w, d) ==
    LET s == w.ace
        me == GameCtx(w.host.gameId)
    IN
    IF s.flippedCards >= NumHolders
    THEN [w EXCEPT !.host.ticker = tickerRemove(@, "AceOfShadows.flipDealtCards", me),
                   !.host.timers = @ \cup {Listener("AceOfShadows.triggerVictoryVideo", me)}]
    ELSE IF s.flipCardCooldown - d > 0
    THEN [w EXCEPT !.ace.flipCardCooldown = @ - d]
    ELSE
      LET cardToFlip == s.cardsInHolders[NumHolders - s.flippedCards]
      IN [w EXCEPT
            !.ace.flippingCards = Append(@, cardToFlip),
            !.ace.flipCardCooldown = winSequenceFlipCooldown,
            !.ace.flippedCards = @ + 1]

\* AceOfShadows.flipDealtCards, a ticker listener
flipDealtCards(w, d) ==
    LET s == w.ace
        me == GameCtx(w.host.gameId)
    IN
    IF s.flippedCards >= NumHolders
    THEN [w EXCEPT !.host.ticker = tickerRemove(@, "AceOfShadows.flipDealtCards", me),
                   !.host.timers = @ \cup {Listener("AceOfShadows.triggerVictoryVideo", me)}]
    ELSE IF s.flipCardCooldown - d > 0
    THEN [w EXCEPT !.ace.flipCardCooldown = @ - d]
    ELSE
      LET cardToFlip == s.cardsInHolders[s.flippedCards + 1]
      IN [w EXCEPT
            !.ace.flippingCards = Append(@, cardToFlip),
            !.ace.flipCardCooldown = winSequenceFlipCooldown,
            !.ace.flippedCards = @ + 1]

\* AceOfShadows.triggerVictoryVideo, run by the 1000 ms timer: the fade
\* listener is added, then Assets.get('video-exodia_obliterate') yields
\* undefined (the loader caches no such key) and `.currentTime = 0` throws.
triggerVictoryVideo(w) ==
    [w EXCEPT !.host.ticker = tickerAdd(@, "AceOfShadows.updateVideoFade",
                                        GameCtx(w.host.gameId)),
              !.host.timers = @ \ {Listener("AceOfShadows.triggerVictoryVideo",
                                            GameCtx(w.host.gameId))},
              !.ace.crashed = TRUE,
              !.host.thrown = TRUE]

\* AceOfShadows.updateVideoFade, a ticker listener: returns at once, because
\* videoFadeAnimation.isActive is never set (startVideoFade is not reached).
updateVideoFade(w, d) == w

\* AceOfShadows.destroy: the timer is cleared, three listeners are removed
\* from the ticker (update is not among them), the card lists are emptied.
aceDestroy(w) ==
    LET me == GameCtx(w.host.gameId)
    IN [w EXCEPT
          !.host.timers = @ \ {Listener("AceOfShadows.triggerVictoryVideo", me)},
          !.host.ticker =
              tickerRemove(
                tickerRemove(
                  tickerRemove(@, "AceOfShadows.dealCardToHolders", me),
                  "AceOfShadows.flipDealtCards", me),
                "AceOfShadows.updateVideoFade", me),
          !.ace = AceNone]

(***************************************************************************)
(* THE DIALOGUE SCENE AND THE PARTICLE SCENE: life cycle, ticker listeners  *)
(* and timers.                                                             *)
(***************************************************************************)
MagicNone ==
    [ alive |-> FALSE,
      dialogueLength |-> -1,        \* dialogueData.dialogue.length, -1: dialogueData
                                    \* is null or undefined
      avatarMap |-> FALSE,          \* avatarMap is a Map (not undefined)
      emojiBase64Map |-> FALSE,     \* emojiBase64Map is a Map (not undefined)
      currentDialogueIndex |-> 0,
      overlayAnimationTime |-> 0,
      dialogueBannerAnimationTime |-> 0,
      uiCreated |-> FALSE,          \* createDialogueUI has run
      indicatorVisible |-> FALSE,   \* continueIndicator.visible
      characterName |-> -1,         \* entry whose name is in characterNameText, -1: ''
      dialogueText |-> -1,          \* entry whose text is in dialogueTextContainer
      dialogueTextContainer |-> "none",   \* "none" | "visible" | "hidden"
      completionText |-> "none" ]         \* "none" | "visible" | "hidden"

\* MagicWords.initialize (loadDialogueData reads the three cache keys) and
\* MagicWords.start: the 1000 ms timer and the update listener
magicStart(w) ==
    LET me == GameCtx(w.host.gameId)
        d == CHOOSE e \in dialogueAssets : TRUE
    IN [w EXCEPT !.magic = [MagicNone EXCEPT
                     !.alive = TRUE,
                     !.dialogueLength = IF loader.cache[DialogueKey(d)] = "value"
                                        THEN loader.remoteEntries ELSE -1,
                     !.avatarMap = loader.cache[AvatarKey] = "value",
                     !.emojiBase64Map = loader.cache[EmojiKey] = "value"],
                 !.host.timers = @ \cup {Listener("MagicWords.start.timeout", me)},
                 !.host.ticker = tickerAdd(@, "MagicWords.update", me)]

\* MagicWords.start, the timer callback: animateDarkening is added, then
\* createDialogueUI adds animateBannerFadeIn.
magicTimeout(w) ==
    LET me == GameCtx(w.host.gameId)
    IN [w EXCEPT !.host.timers = @ \ {Listener("MagicWords.start.timeout", me)},
                 !.host.ticker = tickerAdd(tickerAdd(@, "MagicWords.animateDarkening", me),
                                           "MagicWords.animateBannerFadeIn", me),
                 !.magic.uiCreated = TRUE,
                 !.magic.dialogueBannerAnimationTime = 0]

\* MagicWords.showDialogueComplete
showDialogueComplete(w) ==
    IF ~w.magic.uiCreated THEN [w EXCEPT !.host.thrown = TRUE]
    ELSE [w EXCEPT !.magic.characterName = -1,
                   !.magic.dialogueTextContainer = IF @ = "none" THEN @ ELSE "hidden",
                   !.magic.completionText = "visible"]

\* MagicWords.showCurrentDialogue with isDialogueComplete,
\* showCharacterPortrait and showDialogueText: reading `.dialogue` of a null
\* dialogueData, `.text` of an undefined characterNameText or `.get` of an
\* undefined avatarMap throws a TypeError.
showCurrentDialogue(w) ==
    LET m == w.magic
    IN IF m.dialogueLength = -1 THEN [w EXCEPT !.host.thrown = TRUE]
       ELSE IF m.currentDialogueIndex >= m.dialogueLength THEN showDialogueComplete(w)
       ELSE IF ~m.uiCreated THEN [w EXCEPT !.host.thrown = TRUE]
       ELSE IF ~m.avatarMap
       THEN [w EXCEPT !.magic.characterName = m.currentDialogueIndex,
                      !.host.thrown = TRUE]
       ELSE [w EXCEPT !.magic.characterName = m.currentDialogueIndex,
                      !.magic.dialogueText = m.currentDialogueIndex,
                      !.magic.dialogueTextContainer = IF @ = "none" THEN "visible" ELSE @]

\* MagicWords.advanceDialogue, the pointerdown listener of the foreground
\* container
advanceDialogue(w) ==
    LET m == w.magic
    IN IF m.dialogueLength = -1 THEN [w EXCEPT !.host.thrown = TRUE]
       ELSE IF m.currentDialogueIndex >= m.dialogueLength
       THEN IF m.completionText = "none" THEN [w EXCEPT !.host.thrown = TRUE]
            ELSE
              LET w1 == showCurrentDialogue(
                          [w EXCEPT !.magic.completionText = "hidden",
                                    !.magic.currentDialogueIndex = 0])
              IN IF w1.host.thrown THEN w1
                 ELSE IF w1.magic.dialogueTextContainer = "none"
                 THEN [w1 EXCEPT !.host.thrown = TRUE]
                 ELSE [w1 EXCEPT !.magic.dialogueTextContainer = "visible"]
       ELSE showCurrentDialogue([w EXCEPT !.magic.currentDialogueIndex = @ + 1])

\* MagicWords.animateDarkening, a ticker listener
animateDarkening(w, d) ==
    LET t == w.magic.overlayAnimationTime + d
    IN [w EXCEPT !.magic.overlayAnimationTime = t,
                 !.host.ticker = IF t >= 500
                                 THEN tickerRemove(@, "MagicWords.animateDarkening",
                                                   GameCtx(w.host.gameId))
                                 ELSE @]

\* MagicWords.animateBannerFadeIn, a ticker listener
animateBannerFadeIn(w, d) ==
    LET t == w.magic.dialogueBannerAnimationTime + d
    IN IF t >= 500
       THEN showCurrentDialogue(
              [w EXCEPT !.magic.dialogueBannerAnimationTime = t,
                        !.host.ticker = tickerRemove(@, "MagicWords.animateBannerFadeIn",
                                                     GameCtx(w.host.gameId)),
                        !.magic.indicatorVisible = TRUE])
       ELSE [w EXCEPT !.magic.dialogueBannerAnimationTime = t]

\* MagicWords.update, a ticker listener: moves the continue indicator by
\* Date.now(), no field of the record changes.
magicUpdate(w, d) == w

\* MagicWords.destroy: clears the timer and removes its three listeners.
magicDestroy(w) ==
    LET me == GameCtx(w.host.gameId)
    IN [w EXCEPT
          !.host.timers = @ \ {Listener("MagicWords.start.timeout", me)},
          !.host.ticker =
              tickerRemove(
                tickerRemove(
                  tickerRemove(@, "MagicWords.animateDarkening", me),
                  "MagicWords.animateBannerFadeIn", me),
                "MagicWords.update", me),
          !.magic = MagicNone]

FlameEvents == {"pointermove", "pointerdown", "pointerup"}

FlameNone ==
    [ alive |-> FALSE,
      normalRef |-> <<"PhoenixFlame", "normalEmitterConfig">>,
      intenseRef |-> <<"PhoenixFlame", "intenseEmitterConfig">>,
                                    \* the objects normalEmitterConfig and
                                    \* intenseEmitterConfig refer to
      normalEmit |-> FALSE,         \* normalEmitter.emit
      intenseEmit |-> FALSE,        \* intenseEmitter.emit
      normalCount |-> 0,            \* normalEmitter.particleCount
      intenseCount |-> 0,           \* intenseEmitter.particleCount
      normalIdle |-> 0,             \* frames since the emitter last could spawn
      intenseIdle |-> 0,
      spawnPos |-> "none",          \* spawn position of both emitters
      particleCountText |-> -1 ]    \* the number in particleCountText, -1: ''

\* PhoenixFlame.loadParticleTextures and loadTexturesForConfig on the config
\* objects h; nr and ir are the objects the two fields refer to.
loadParticleTextures(h, nr, ir, screen) ==
    LET h1 == [h EXCEPT ![nr].pos = screen, ![ir].pos = screen]
        h2 == [h1 EXCEPT ![nr].maxParticles = normalMaxParticles]
    IN [h2 EXCEPT ![nr].textures = "textures", ![ir].textures = "textures"]

\* mutant of flameStart: the cached configs are used without a copy
flameStart_noCopy(w) ==
    LET me == GameCtx(w.host.gameId)
        nr == CacheRef("flame")
        ir == CacheRef("flame_hotter")
        h == loadParticleTextures(w.host.configs, nr, ir, w.host.screen)
    IN IF \E c \in particleConfigAssets : loader.cache[ParticleKey(c)] # "value"
       THEN [w EXCEPT !.host.thrown = TRUE]
       ELSE [w EXCEPT
               !.host.configs = h,
               !.flame = [FlameNone EXCEPT !.alive = TRUE,
                                           !.normalRef = nr, !.intenseRef = ir,
                                           !.normalEmit = TRUE,
                                           !.spawnPos = w.host.screen],
               !.host.windowListeners = @ \cup {Listener(e, me) : e \in FlameEvents},
               !.host.ticker = tickerAdd(@, "PhoenixFlame.update", me)]

\* PhoenixFlame.initialize (loadParticleTextures), buildForeground
\* (createEmitters), onResize, addEventListeners and start.
\* loadParticleTextures copies both cached configs with
\* JSON.parse(JSON.stringify(c)) and assigns `.pos` on the copies: with a null
\* or missing config this throws before anything is registered.
flameStart(w) ==
    LET me == GameCtx(w.host.gameId)
        nr == <<"PhoenixFlame", "normalEmitterConfig">>
        ir == <<"PhoenixFlame", "intenseEmitterConfig">>
        copied == [w.host.configs EXCEPT ![nr] = w.host.configs[CacheRef("flame")],
                                         ![ir] = w.host.configs[CacheRef("flame_hotter")]]
        h == loadParticleTextures(copied, nr, ir, w.host.screen)
    IN IF \E c \in particleConfigAssets : loader.cache[ParticleKey(c)] # "value"
       THEN [w EXCEPT !.host.thrown = TRUE]
       ELSE [w EXCEPT
               !.host.configs = h,
               !.flame = [FlameNone EXCEPT !.alive = TRUE,
                                           !.normalRef = nr, !.intenseRef = ir,
                                           !.normalEmit = TRUE,
                                           !.spawnPos = w.host.screen],
               !.host.windowListeners = @ \cup {Listener(e, me) : e \in FlameEvents},
               !.host.ticker = tickerAdd(@, "PhoenixFlame.update", me)]

\* The particle counts Emitter.update can leave after one frame: the
\* particles age and those past their (random) life are removed, at the
\* latest MaxLife frames after they were spawned; while `emit` is set new ones
\* are spawned as long as there are fewer than maxParticles.
NextCounts(count, emit, idle, cap) ==
    IF emit THEN 0..cap
    ELSE IF idle + 1 >= MaxLife THEN {0}
    ELSE 0..count

\* The draws of one frame: the two counts the emitters of the live particle
\* scene end the frame with.
FrameRolls ==
    IF host.scene = "PHOENIX_FLAME" /\ flame.alive
    THEN NextCounts(flame.normalCount, flame.normalEmit, flame.normalIdle,
                    host.configs[flame.normalRef].maxParticles)
         \X NextCounts(flame.intenseCount, flame.intenseEmit, flame.intenseIdle,
                       host.configs[flame.intenseRef].maxParticles)
    ELSE {<<0, 0>>}

\* mutant of flameUpdate: the text shows the count of the normal emitter only
flameUpdate_normalOnly(w, d) ==
    LET f == w.flame
        n == w.host.roll[1]
        i == w.host.roll[2]
    IN [w EXCEPT !.flame.normalCount = n,
                 !.flame.intenseCount = i,
                 !.flame.normalIdle = IF f.normalEmit THEN 0
                                      ELSE IF @ < MaxLife THEN @ + 1 ELSE @,
                 !.flame.intenseIdle = IF f.intenseEmit THEN 0
                                       ELSE IF @ < MaxLife THEN @ + 1 ELSE @,
                 !.flame.particleCountText = n]

\* PhoenixFlame.update, a ticker listener: advances both emitters, then
\* updateParticleCount writes the sum of their counts to the text.
flameUpdate(w, d) ==
    LET f == w.flame
        n == w.host.roll[1]
        i == w.host.roll[2]
    IN [w EXCEPT !.flame.normalCount = n,
                 !.flame.intenseCount = i,
                 !.flame.normalIdle = IF f.normalEmit THEN 0
                                      ELSE IF @ < MaxLife THEN @ + 1 ELSE @,
                 !.flame.intenseIdle = IF f.intenseEmit THEN 0
                                       ELSE IF @ < MaxLife THEN @ + 1 ELSE @,
                 !.flame.particleCountText = n + i]

\* mutant of flamePointer: the release does not switch the intense emitter off
flamePointer_keepIntense(w, e) ==
    IF e = "pointerdown"
    THEN [w EXCEPT !.flame.normalEmit = FALSE, !.flame.intenseEmit = TRUE]
    ELSE IF e = "pointerup"
    THEN [w EXCEPT !.flame.normalEmit = TRUE]
    ELSE [w EXCEPT !.flame.spawnPos = "pointer"]

\* PhoenixFlame.onPointerDown / onPointerUp / onPointerMove: intensifyFlame,
\* normalizeFlame, updateEmitterPosition
flamePointer(w, e) ==
    IF e = "pointerdown"
    THEN [w EXCEPT !.flame.normalEmit = FALSE, !.flame.intenseEmit = TRUE]
    ELSE IF e = "pointerup"
    THEN [w EXCEPT !.flame.normalEmit = TRUE, !.flame.intenseEmit = FALSE]
    ELSE [w EXCEPT !.flame.spawnPos = "pointer"]

\* PhoenixFlame.onResize: both emitters spawn at the position computed from
\* the new canvas size.
flameOnResize(f, z) == [f EXCEPT !.spawnPos = z]

\* PhoenixFlame.removeEventListeners and PhoenixFlame.destroy; the scene and
\* its two config copies become garbage.
flameDestroy(w) ==
    LET me == GameCtx(w.host.gameId)
    IN [w EXCEPT !.host.windowListeners = @ \ {Listener(e, me) : e \in FlameEvents},
                 !.host.configs = [r \in ConfigRefs |->
                                     IF r[1] = "PhoenixFlame" THEN ConfigFree ELSE @[r]],
                 !.flame = FlameNone]

(***************************************************************************)
(* Utils.textToHtmlWithEmojis                                              *)
(***************************************************************************)
\* longest dialogue text
MaxText == 4

\* Characters of a dialogue text: a word character (\w), a character that is
\* not a word character, and the two braces.
Chars == {"a", "-", "{", "}"}

IsWord(c) == c = "a"

Texts == UNION {[1..n -> Chars] : n \in 0..MaxText}

\* Names an emoji of the remote document can have, and the base64 data URLs
\* convertUrlToBase64 resolved them to.
EmojiNames == {<<"a">>, <<"a", "a">>, <<"a", "-">>}

EmojiMaps == UNION {[S -> {"img1", "img2"}] : S \in SUBSET EmojiNames}

\* A character of the output outside the emitted elements.
Plain(t) == [k \in 1..Len(t) |-> <<"ch", t[k]>>]

\* Utils.processEmojiMatch: the <img> of the emoji's data URL, or the
\* fallback <span>.
processEmojiMatch(emojiName, emojiBase64Map) ==
    IF emojiName \in DOMAIN emojiBase64Map
    THEN <<"img", emojiBase64Map[emojiName]>>
    ELSE <<"span">>

\* The end of the greedy \w+ that starts at k: the first index from k on that
\* holds no word character.
RECURSIVE WordEnd(_, _)
WordEnd(text, k) ==
    IF k <= Len(text) /\ IsWord(text[k]) THEN WordEnd(text, k + 1) ELSE k

\* /\{(\w+)\}/ matches at index i.
MatchAt(text, i) ==
    /\ i <= Len(text)
    /\ text[i] = "{"
    /\ LET j == WordEnd(text, i + 1)
       IN j > i + 1 /\ j <= Len(text) /\ text[j] = "}"

\* emojiRegex.exec(text) with lastIndex = from - 1: the index of the next
\* match, 0 for null.
RECURSIVE exec(_, _)
exec(text, from) ==
    IF from > Len(text) THEN 0
    ELSE IF MatchAt(text, from) THEN from
    ELSE exec(text, from + 1)

\* The while loop of textToHtmlWithEmojis; lastIndex is the number of
\* characters consumed.
RECURSIVE emojiLoop(_, _, _, _)
emojiLoop(text, emojiBase64Map, lastIndex, result) ==
    LET i == exec(text, lastIndex + 1)
    IN IF i = 0 THEN [lastIndex |-> lastIndex, result |-> result]
       ELSE LET j == WordEnd(text, i + 1)
            IN emojiLoop(text, emojiBase64Map, j,
                         result \o Plain(SubSeq(text, lastIndex + 1, i - 1))
                                \o <<processEmojiMatch(SubSeq(text, i + 1, j - 1),
                                                       emojiBase64Map)>>)

\* mutant of textToHtmlWithEmojis: the text after the last emoji is dropped
textToHtmlWithEmojis_noTail(text, emojiBase64Map) ==
    emojiLoop(text, emojiBase64Map, 0, <<>>).result

\* Utils.textToHtmlWithEmojis
textToHtmlWithEmojis(text, emojiBase64Map) ==
    LET r == emojiLoop(text, emojiBase64Map, 0, <<>>)
    IN IF r.lastIndex < Len(text)
       THEN r.result \o Plain(SubSeq(text, r.lastIndex + 1, Len(text)))
       ELSE r.result

RenderNone == [text |-> <<>>, emojiBase64Map |-> <<>>, html |-> <<>>, done |-> FALSE]

(***************************************************************************)
(* GameManager, GameScene and the frame loop                               *)
(***************************************************************************)
World == [host |-> host, ace |-> ace, magic |-> magic, flame |-> flame]

SetWorld(w) ==
    /\ host' = w.host
    /\ ace' = w.ace
    /\ magic' = w.magic
    /\ flame' = w.flame

\* An exception that leaves an event handler or a timer callback: it is
\* reported and the event loop goes on.
Caught(w) ==
    IF w.host.thrown THEN [w EXCEPT !.host.thrown = FALSE, !.host.uncaught = TRUE]
    ELSE w

UpdateFn(g) ==
    CASE g = "ACE_OF_SHADOWS" -> "AceOfShadows.update"
      [] g = "MAGIC_WORDS" -> "MagicWords.update"
      [] g = "PHOENIX_FLAME" -> "PhoenixFlame.update"

\* The game object a listener was registered by is the live one.
Live(h, l) == h.scene \in Games /\ l.ctx = GameCtx(h.gameId)

\* GameScene.createGame: initialize, buildBackground, buildForeground,
\* onResize, addEventListeners, start.
createGame(w, g) ==
    LET me == GameCtx(w.host.gameId)
    IN CASE g = "ACE_OF_SHADOWS" ->
              [w EXCEPT !.ace = aceOnResize(AceNew, w.host.screen),
                        !.host.ticker = tickerAdd(@, "AceOfShadows.update", me)]
         [] g = "MAGIC_WORDS" -> magicStart(w)
         [] g = "PHOENIX_FLAME" -> flameStart(w)

\* GameScene.destroy: `ticker.remove(this.game.update, this)` names the
\* GameScene as context, then removeEventListeners and the game's destroy.
sceneDestroy(w) ==
    LET g == w.host.scene
        w1 == [w EXCEPT !.host.ticker =
                  tickerRemove(@, UpdateFn(g), SceneCtx(w.host.gameId))]
    IN CASE g = "ACE_OF_SHADOWS" -> aceDestroy(w1)
         [] g = "MAGIC_WORDS" -> magicDestroy(w1)
         [] g = "PHOENIX_FLAME" -> flameDestroy(w1)

\* GameManager.startGame, from a button of the main menu: clearCurrentScene
\* destroys the menu and sets currentScene to null, then the GameScene is
\* constructed and, if its constructor returns, assigned and mounted.
StartGame(g) ==
    /\ host.scene = "menu"
    /\ host.gameId < MaxScenes
    /\ LET w1 == createGame([World EXCEPT !.host.scene = "none",
                                          !.host.gameId = @ + 1], g)
       IN SetWorld(IF w1.host.thrown THEN Caught(w1)
                   ELSE [w1 EXCEPT !.host.scene = g])
    /\ UNCHANGED <<loader, render>>

\* GameManager.backToMainMenu, from the back button of a GameScene:
\* clearCurrentScene destroys the scene, then the main menu is mounted.  The
\* menu adds a ticker listener of its own (the blinking instruction text),
\* which requests the frame loop again if it had stopped.
BackToMainMenu ==
    /\ host.scene \in Games
    /\ SetWorld([sceneDestroy(World) EXCEPT !.host.scene = "menu",
                                            !.host.ticker.halted = FALSE])
    /\ UNCHANGED <<loader, render>>

\* One listener call of a frame.
callListener(w, l, d) ==
    IF ~Live(w.host, l) THEN [w EXCEPT !.host.staleRan = TRUE]
    ELSE CASE l.fn = "AceOfShadows.update" -> [w EXCEPT !.ace = update(w.ace, d)]
           [] l.fn = "AceOfShadows.dealCardToHolders" -> dealCardToHolders(w, d)
           [] l.fn = "AceOfShadows.flipDealtCards" -> flipDealtCards(w, d)
           [] l.fn = "AceOfShadows.updateVideoFade" -> updateVideoFade(w, d)
           [] l.fn = "MagicWords.update" -> magicUpdate(w, d)
           [] l.fn = "MagicWords.animateDarkening" -> animateDarkening(w, d)
           [] l.fn = "MagicWords.animateBannerFadeIn" -> animateBannerFadeIn(w, d)
           [] l.fn = "PhoenixFlame.update" -> flameUpdate(w, d)

\* Ticker.update: the listeners are called in list order; one that removes
\* itself is followed by its successor, one added during the frame is called
\* in the same frame.  A listener that throws ends the frame, and Ticker._tick
\* does not request the next one.
RECURSIVE runFrom(_, _, _)
runFrom(w, i, d) ==
    IF i > Len(w.host.ticker.list) THEN w
    ELSE
      LET l == w.host.ticker.list[i]
          w1 == callListener(w, l, d)
          next == IF i <= Len(w1.host.ticker.list) /\ w1.host.ticker.list[i] = l
                  THEN i + 1 ELSE i
      IN IF w1.host.thrown
         THEN [Caught(w1) EXCEPT !.host.ticker.halted = TRUE]
         ELSE runFrom(w1, next, d)

\* One frame of app.ticker with deltaMS = d.
Tick(d) ==
    /\ ~host.ticker.halted
    /\ \E r \in FrameRolls :
          SetWorld([runFrom([World EXCEPT !.host.roll = r], 1, d)
                    EXCEPT !.host.roll = <<0, 0>>])
    /\ UNCHANGED <<loader, render>>

\* A click on the "Hurry up!" button
HurryUp ==
    /\ host.scene = "ACE_OF_SHADOWS"
    /\ ace.hurryUpButton = "visible"
    /\ ace' = toggleSpeedBoost(ace)
    /\ UNCHANGED <<loader, host, magic, flame, render>>

\* A click on the "Press to win" button
PressToWin ==
    /\ host.scene = "ACE_OF_SHADOWS"
    /\ ace.winButton = "visible"
    /\ SetWorld(startWinSequence(World))
    /\ UNCHANGED <<loader, render>>

\* The foreground container of the dialogue scene has a child a pointer can
\* hit: the first is the banner, once a frame of animateBannerFadeIn has
\* drawn it.
BannerHittable ==
    /\ host.scene = "MAGIC_WORDS"
    /\ magic.uiCreated
    /\ magic.dialogueBannerAnimationTime > 0

\* A pointerdown on a child of the foreground container of the dialogue scene
MagicPointer ==
    /\ BannerHittable
    /\ SetWorld(Caught(advanceDialogue(World)))
    /\ UNCHANGED <<loader, render>>

\* A pending timer fires.
TimerFires ==
    \E t \in host.timers :
        /\ SetWorld(IF ~Live(host, t) THEN [World EXCEPT !.host.staleRan = TRUE,
                                                         !.host.timers = @ \ {t}]
                    ELSE IF t.fn = "MagicWords.start.timeout" THEN magicTimeout(World)
                    ELSE Caught(triggerVictoryVideo(World)))
        /\ UNCHANGED <<loader, render>>

\* A pointer event on the window is delivered to the listeners added for it.
WindowPointer(e) ==
    /\ \E l \in host.windowListeners : l.fn = e
    /\ SetWorld(IF \E l \in host.windowListeners : l.fn = e /\ ~Live(host, l)
                THEN [(IF \E l \in host.windowListeners : l.fn = e /\ Live(host, l)
                       THEN flamePointer(World, e) ELSE World)
                      EXCEPT !.host.staleRan = TRUE]
                ELSE flamePointer(World, e))
    /\ UNCHANGED <<loader, render>>

\* window 'resize' with the new canvas size z: GameManager.onResize forwards
\* to the scene, GameScene.onResize to the game.  The dialogue scene
\* repositions display objects that are not part of its record.
Resize(z) ==
    /\ z # host.screen
    /\ host' = [host EXCEPT !.screen = z]
    /\ ace' = IF host.scene = "ACE_OF_SHADOWS" THEN aceOnResize(ace, z) ELSE ace
    /\ flame' = IF host.scene = "PHOENIX_FLAME" THEN flameOnResize(flame, z) ELSE flame
    /\ UNCHANGED <<loader, magic, render>>

\* The loader state of a run in which every asset loaded and finishLoading
\* mounted the menu.
LoaderLoaded ==
    [LoaderInit EXCEPT
        !.completedAssets = TotalAssets,
        !.progressCalls = TotalAssets,
        !.marked = [c \in Categories |->
                      CASE c = "regular" -> Cardinality(regularAssets)
                        [] c = "video" -> Cardinality(backgroundVideoAssets)
                        [] c = "dialogue" -> Cardinality(dialogueAssets)
                        [] c = "particle" -> Cardinality(particleConfigAssets)
                        [] c = "audio" -> Cardinality(audioAssets)],
        !.lastProgress = [num |-> TotalAssets, den |-> TotalAssets],
        !.regular = [a \in regularAssets |-> "loaded"],
        !.video = [v \in backgroundVideoAssets |-> "loaded"],
        !.dialogue = [d \in dialogueAssets |-> "done"],
        !.particle = [c \in particleConfigAssets |-> "done"],
        !.audio = [a \in audioAssets |-> "loaded"],
        !.cache = [k \in CacheKeys |-> "value"],
        !.cacheSets = [k \in CacheKeys |-> 1],
        !.pRegular = "resolved", !.pVideo = "resolved", !.pDialogue = "resolved",
        !.pParticle = "resolved", !.pAudio = "resolved", !.pAll = "resolved",
        !.timer = "fired", !.screen = "menu"]

Init ==
    /\ loader = LoaderLoaded
    /\ host = HostInit
    /\ ace = AceNone
    /\ magic = MagicNone
    /\ flame = FlameNone
    /\ render = RenderNone

Next ==
    \/ \E g \in Games : StartGame(g)
    \/ BackToMainMenu
    \/ \E d \in DeltaMS : Tick(d)
    \/ HurryUp
    \/ PressToWin
    \/ MagicPointer
    \/ TimerFires
    \/ \E e \in FlameEvents : WindowPointer(e)
    \/ \E z \in Screens : Resize(z)

Spec == Init /\ [][Next]_vars

\* The loader state after the fetch of the dialogue document failed: the
\* catch of loadDialogueData cached null, the emoji and avatar maps were never
\* cached.
LoaderDialogueFailed ==
    [LoaderLoaded EXCEPT
        !.dialogue = [d \in dialogueAssets |-> "failed"],
        !.cache = [k \in CacheKeys |->
                     IF k \in {DialogueKey(d) : d \in dialogueAssets} THEN "null"
                     ELSE IF k \in {EmojiKey, AvatarKey} THEN "unset"
                     ELSE "value"],
        !.cacheSets = [k \in CacheKeys |-> IF k \in {EmojiKey, AvatarKey} THEN 0 ELSE 1]]

\* The loader state after the fetch of both particle configs failed: the
\* catch of loadParticleConfigs cached null for both.
LoaderParticleFailed ==
    [LoaderLoaded EXCEPT
        !.particle = [c \in particleConfigAssets |-> "failed"],
        !.cache = [k \in CacheKeys |->
                     IF k \in {ParticleKey(c) : c \in particleConfigAssets} THEN "null"
                     ELSE "value"]]

\* Outcomes of preloading: everything loaded, with a dialogue document of
\* 0..NumEntries entries, or one of the two failures.
LoadOutcomes ==
    {[LoaderLoaded EXCEPT !.remoteEntries = n] : n \in 0..NumEntries}
    \cup {LoaderDialogueFailed, LoaderParticleFailed}

AssetsInit ==
    /\ loader \in LoadOutcomes
    /\ host = HostInit
    /\ ace = AceNone
    /\ magic = MagicNone
    /\ flame = FlameNone
    /\ render = RenderNone

\* The dialogue scene and the particle scene, the two scenes that read the
\* cache keys written by the loader.
AssetsNext ==
    \/ \E g \in {"MAGIC_WORDS", "PHOENIX_FLAME"} : StartGame(g)
    \/ BackToMainMenu
    \/ \E d \in DeltaMS : Tick(d)
    \/ MagicPointer
    \/ TimerFires
    \/ \E e \in FlameEvents : WindowPointer(e)
    \/ \E z \in Screens : Resize(z)

SpecAssets == AssetsInit /\ [][AssetsNext]_vars

\* MagicWords.showDialogueText of one dialogue text with one emoji map.
TextInit ==
    /\ loader = LoaderLoaded
    /\ host = HostInit
    /\ ace = AceNone
    /\ magic = MagicNone
    /\ flame = FlameNone
    /\ render \in {[RenderNone EXCEPT !.text = t, !.emojiBase64Map = m] :
                       t \in Texts, m \in EmojiMaps}

showDialogueText ==
    /\ ~render.done
    /\ render' = [render EXCEPT
                     !.html = textToHtmlWithEmojis(render.text, render.emojiBase64Map),
                     !.done = TRUE]
    /\ UNCHANGED <<loader, host, ace, magic, flame>>

SpecText == TextInit /\ [][showDialogueText]_vars

LoadInit ==
    /\ loader = LoaderInit
    /\ host = HostInit
    /\ ace = AceNone
    /\ magic = MagicNone
    /\ flame = FlameNone
    /\ render = RenderNone

SpecLoad == LoadInit /\ [][LoadNext]_vars

\* Number of declared assets whose own load has settled.
SettledAssets(s) ==
    Cardinality({a \in regularAssets : s.regular[a] # "pending"})
    + Cardinality({v \in backgroundVideoAssets : s.video[v] # "pending"})
    + Cardinality({d \in dialogueAssets : s.dialogue[d] \in {"done", "failed"}})
    + Cardinality({c \in particleConfigAssets : s.particle[c] \in {"done", "failed"}})
    + Cardinality({a \in audioAssets : s.audio[a] # "pending"})

AllAssetsSettled(s) == SettledAssets(s) = s.totalAssets

(***************************************************************************)
(* Claims about the asset loader, checked under SpecLoad.                  *)
(***************************************************************************)

\* C3: once loadAllAssets has settled (resolved or rejected), the last value
\* passed to the progress callback is completed/total = 1.0, whatever assets
\* failed.
C3_FinalProgressIsOne ==
    loader.pAll # "pending" =>
        /\ loader.progressCalls > 0
        /\ loader.lastProgress.num = loader.lastProgress.den

\* C4: a failure of single assets never makes loadAllAssets reject.
C4_NeverRejects == loader.pAll # "rejected"

\* C5: when finishLoading has run (the main menu is mounted), the load of
\* every declared asset has settled.
C5_FinishAfterAllSettled ==
    loader.screen = "menu" => AllAssetsSettled(loader)

\* C7: the completed counter never exceeds the total, every progress value is
\* within 0..1, and the counter and the number of progress callbacks both
\* equal the number of declared assets whose load has settled (one increment
\* and one callback per asset, loaded or failed).
C7_OneIncrementPerAsset ==
    /\ loader.completedAssets <= loader.totalAssets
    /\ loader.lastProgress.num <= loader.lastProgress.den
    /\ loader.completedAssets = SettledAssets(loader)
    /\ loader.progressCalls = SettledAssets(loader)

\* C8: during loading every cache key is set at most once.
C8_CacheWriteOnce ==
    \A k \in CacheKeys : loader.cacheSets[k] <= 1

\* C9: the dialogue document is neither cached nor counted as complete while
\* one of its emoji or avatar fetches is pending (or not yet started), and
\* the document fails only when its own fetch failed, never because an emoji
\* or avatar fetch failed.
C9_DialogueAfterSubFetches ==
    \A d \in dialogueAssets :
        /\ loader.dialogue[d] \in {"fetching", "emojis", "avatars"} =>
              /\ loader.cacheSets[DialogueKey(d)] = 0
              /\ loader.marked["dialogue"] = 0
        /\ (loader.cache[DialogueKey(d)] # "unset" \/ loader.marked["dialogue"] > 0) =>
              /\ \A i \in 1..MaxEmoji : loader.emoji[i] # "pending"
              /\ \A i \in 1..MaxAvatar : loader.avatar[i] # "pending"
        /\ loader.dialogue[d] = "failed" =>
              /\ \A i \in 1..MaxEmoji : loader.emoji[i] = "none"
              /\ \A i \in 1..MaxAvatar : loader.avatar[i] = "none"
        /\ loader.dialogue[d] = "done" <=> loader.cache[DialogueKey(d)] = "value"

\* C9 witness: the document is cached and counted although an emoji fetch and
\* an avatar fetch it references have failed.
C9_Witness ==
    \E d \in dialogueAssets :
        /\ loader.dialogue[d] = "done"
        /\ loader.cache[DialogueKey(d)] = "value"
        /\ loader.marked["dialogue"] = 1
        /\ \E i \in 1..MaxEmoji : loader.emoji[i] = "failed"
        /\ \E i \in 1..MaxAvatar : loader.avatar[i] = "failed"


(***************************************************************************)
(* The card-dealing scene and scene teardown                               *)
(***************************************************************************)
\* number of entries of the sequence q that equal c
Occurrences(q, c) == Cardinality({i \in 1..Len(q) : q[i] = c})

\* the cards of the k-th, (k+2)-th, ... deal up to the n-th deal, in dealing
\* order: createCards pushes the cards 1..NumCards and dealTopCard pops the
\* last one, so the k-th dealt card is NumCards - k + 1
DealtFrom(k, n) == [i \in 1..((n - k + 2) \div 2) |-> NumCards - k + 1 - 2 * (i - 1)]

Reverse(q) == [i \in 1..Len(q) |-> q[Len(q) + 1 - i]]

\* C1, as stated: at every frame of the card-dealing scene
\* |mainStack| + |topStack| + |bottomStack| + |movingCards| equals the number
\* of cards created.
C1_FourListCount ==
    ace.alive =>
        Len(ace.mainStack) + Len(ace.topStack) + Len(ace.bottomStack)
            + Len(ace.movingCards) = NumCards

\* C1, amended: at every frame of the card-dealing scene
\* |mainStack| + |topStack| + |bottomStack| + |cardsInHolders| equals the
\* number of cards created, movingCards lists only cards that are counted
\* there, and the card container holds every created card exactly once (no
\* card is created or destroyed mid-scene).
C1_CardConservation ==
    ace.alive =>
        /\ Len(ace.mainStack) + Len(ace.topStack) + Len(ace.bottomStack)
              + Len(ace.cardsInHolders) = NumCards
        /\ Range(ace.movingCards) \subseteq
              Range(ace.topStack) \cup Range(ace.bottomStack) \cup Range(ace.cardsInHolders)
        /\ Len(ace.children) = NumCards
        /\ Range(ace.children) = Cards

\* C1 witness: the scene after the speed boost, all deals and the five deals
\* of the win sequence, with a card still in flight.
C1_Witness ==
    /\ ace.alive
    /\ ace.hurryUpButton = "none"
    /\ Len(ace.mainStack) = 0
    /\ Len(ace.cardsInHolders) = NumHolders
    /\ Len(ace.movingCards) > 0

\* C2, as stated: every card is a member of exactly one of mainStack,
\* topStack, bottomStack and movingCards.
C2_ExclusiveWithMoving ==
    ace.alive =>
        \A c \in Cards :
            Occurrences(ace.mainStack, c) + Occurrences(ace.topStack, c)
              + Occurrences(ace.bottomStack, c) + Occurrences(ace.movingCards, c) = 1

\* C2, amended: every card is a member of exactly one of mainStack, topStack,
\* bottomStack and cardsInHolders (and occurs there once); a card of
\* movingCards is at the same time a member of topStack, bottomStack or
\* cardsInHolders, never of mainStack.
C2_ExclusiveOwner ==
    ace.alive =>
        \A c \in Cards :
            /\ Occurrences(ace.mainStack, c) + Occurrences(ace.topStack, c)
                 + Occurrences(ace.bottomStack, c)
                 + Occurrences(ace.cardsInHolders, c) = 1
            /\ Occurrences(ace.movingCards, c) > 0 =>
                 Occurrences(ace.mainStack, c) = 0

\* C2 witness: one card in flight to the top stack while another is in flight
\* to a card holder.
C2_Witness ==
    /\ ace.alive
    /\ \E c \in Range(ace.movingCards) : c \in Range(ace.topStack)
    /\ \E c \in Range(ace.movingCards) : c \in Range(ace.cardsInHolders)

\* C6, as stated: once a game scene is torn down no ticker listener, timer or
\* window listener of its game remains registered, and no callback of a
\* destroyed game is ever run.
C6_NoStaleCallbacks ==
    /\ \A i \in 1..Len(host.ticker.list) : Live(host, host.ticker.list[i])
    /\ \A t \in host.timers : Live(host, t)
    /\ \A l \in host.windowListeners : Live(host, l)
    /\ ~host.staleRan

\* C10: the k-th card dealt from the main pile is in the top stack exactly
\* when k is odd: the top stack is the 1st, 3rd, ... dealt card in dealing
\* order, the even deals are the bottom stack followed by the cards the win
\* sequence popped from it, and the next target is the top stack exactly after
\* an even number of deals.
C10_DealsAlternate ==
    ace.alive =>
        LET n == NumCards - Len(ace.mainStack)
        IN /\ ace.topStack = DealtFrom(1, n)
           /\ ace.bottomStack \o Reverse(ace.cardsInHolders) = DealtFrom(2, n)
           /\ ace.currentTarget = (IF n % 2 = 0 THEN "top" ELSE "bottom")

\* C10 witness: every card has been dealt, part of them after the speed boost.
C10_Witness ==
    /\ ace.alive
    /\ Len(ace.mainStack) = 0
    /\ Len(ace.cardsInHolders) = 0
    /\ ace.moveInterval = boostedMoveInterval
    /\ Len(ace.topStack) + Len(ace.bottomStack) = NumCards

(***************************************************************************)
(* Flight of the cards, speed boost and the deal metronome                 *)
(***************************************************************************)
\* C11, as stated: whatever the deltaMS of the next frame, after
\* AceOfShadows.update every card whose elapsed time has reached the
\* animation duration is exactly on its target (x, y and rotation) and is no
\* longer in movingCards, and every card still in movingCards has an elapsed
\* time below the duration (progress < 1) and is on the path, not beyond it.
C11_LandsWhenDue ==
    ace.alive =>
        \A d \in DeltaMS :
            LET s == update(ace, d)
            IN \A c \in Cards :
                 /\ c \in Range(s.movingCards) =>
                        /\ s.moveTimeElapsed[c] < s.animationDuration
                        /\ s.pos[c] = <<"path">>
                 /\ (c \in Range(ace.movingCards) /\ c \notin Range(s.movingCards)) =>
                        /\ s.pos[c] = s.target[c]
                        /\ s.rot[c] = s.targetRot[c]

\* C12, as stated: once toggleSpeedBoost has run (it alone removes the
\* hurry-up button), moveInterval is the boosted 10 ms and animationDuration
\* the boosted 200 ms in every later state of the scene.
C12_BoostedValuesStay ==
    (ace.alive /\ ace.hurryUpButton = "none") =>
        /\ ace.moveInterval = boostedMoveInterval
        /\ ace.animationDuration = boostedAnimationDuration

\* C12, amended: once toggleSpeedBoost has run, animationDuration is the
\* boosted 200 ms in every later state; moveInterval is the boosted 10 ms, and
\* the deal cooldown at most that, as long as the main pile holds a card; the
\* only other value of moveInterval is the 150 ms that the win sequence
\* writes when it deals to a holder, with the main pile empty.
C12_BoostOneWay ==
    (ace.alive /\ ace.hurryUpButton = "none") =>
        /\ ace.animationDuration = boostedAnimationDuration
        /\ Len(ace.mainStack) > 0 =>
              /\ ace.moveInterval = boostedMoveInterval
              /\ ace.moveCooldown <= boostedMoveInterval
        /\ ace.moveInterval # boostedMoveInterval =>
              /\ ace.moveInterval = winSequenceDealCooldown - 50
              /\ Len(ace.cardsInHolders) > 0
              /\ Len(ace.mainStack) = 0

\* C12 witness: the boost was applied with cards left to deal, and the win
\* sequence has since dealt to a holder.
C12_Witness ==
    /\ ace.alive
    /\ ace.hurryUpButton = "none"
    /\ Len(ace.cardsInHolders) > 0
    /\ ace.moveInterval = winSequenceDealCooldown - 50

\* The fields C13 names: deal interval, flight duration, deal cooldown and
\* the card collections.
BoostFields(s) ==
    <<s.moveInterval, s.animationDuration, s.moveCooldown, s.mainStack,
      s.topStack, s.bottomStack, s.movingCards, s.cardsInHolders>>

\* toggleSpeedBoost has run in this scene: it alone removes the hurry-up
\* button and it alone writes the boosted interval.
Boosted == ace.alive /\ (ace.hurryUpButton = "none" \/ ace.moveInterval = boostedMoveInterval)

C14_VisitedOncePerTick ==
    ace.alive =>
        /\ \A c \in Cards : Occurrences(ace.movingCards, c) <= 1
        /\ \A d \in DeltaMS :
              LET s == update(ace, d)
              IN \A c \in Range(ace.movingCards) \cap Range(s.movingCards) :
                    s.moveTimeElapsed[c] = ace.moveTimeElapsed[c] + d

C16_DealSincePreviousDeal ==
    (ace.alive /\ Len(ace.mainStack) > 0) =>
        \A d \in FrameMS :
            LET s == update(ace, d)
                dealt == Len(s.mainStack) = Len(ace.mainStack) - 1
            IN /\ dealt \/ s.mainStack = ace.mainStack
               /\ dealt <=> (ace.sinceDeal = -1 \/ ace.sinceDeal + d >= ace.moveInterval)

\* C16, amended: as above, with the time counted from the previous deal or,
\* if the speed boost was applied after it, from the speed boost; the first
\* card is dealt on the first tick of a scene in which nothing was counted
\* yet.
C16_Metronome ==
    (ace.alive /\ Len(ace.mainStack) > 0) =>
        \A d \in FrameMS :
            LET s == update(ace, d)
                dealt == Len(s.mainStack) = Len(ace.mainStack) - 1
            IN /\ dealt \/ s.mainStack = ace.mainStack
               /\ dealt <=> (ace.sinceMark = -1 \/ ace.sinceMark + d >= ace.moveInterval)
               /\ dealt => s.mainStack = Front(ace.mainStack)

\* C16 witness: a deal is due on the next frame of a boosted scene and on the
\* next frame of a scene at the default interval.
C16_Witness ==
    /\ ace.alive
    /\ Len(ace.mainStack) > 0
    /\ ace.sinceMark # -1
    /\ ace.moveInterval = boostedMoveInterval
    /\ \E d \in FrameMS : ace.sinceMark + d >= ace.moveInterval
    /\ \E d \in FrameMS : ace.sinceMark + d < ace.moveInterval

\* C17: once the main pile is empty, dealTopCard changes nothing, and
\* whatever the deltaMS of the next frame, update leaves the main pile empty
\* and the two stacks, the display order and the current target unchanged,
\* adds no card to movingCards and raises no error.
C17_EmptyPileNoOp ==
    (ace.alive /\ Len(ace.mainStack) = 0) =>
        /\ dealTopCard(ace) = ace
        /\ \A d \in FrameMS :
              LET s == update(ace, d)
              IN /\ s.mainStack = <<>>
                 /\ s.topStack = ace.topStack
                 /\ s.bottomStack = ace.bottomStack
                 /\ s.currentTarget = ace.currentTarget
                 /\ s.children = ace.children
                 /\ Range(s.movingCards) \subseteq Range(ace.movingCards)
                 /\ s.crashed = ace.crashed

\* C17 witness: the main pile is empty, every card has landed and the frames
\* go on.
C17_Witness ==
    /\ ace.alive
    /\ Len(ace.mainStack) = 0
    /\ Len(ace.movingCards) = 0
    /\ ace.winButton = "visible"

\* What the banner of the dialogue scene displays.
EntryShown(m, i) ==
    /\ m.dialogueTextContainer = "visible"
    /\ m.dialogueText = i
    /\ m.characterName = i
    /\ m.completionText # "visible"

CompleteShown(m) ==
    /\ m.completionText = "visible"
    /\ m.dialogueTextContainer # "visible"

\* C18: if the remote dialogue document failed to load, the dialogue scene,
\* once its banner has faded in, displays an error message; it is never in a
\* state that shows neither a dialogue entry nor an error.  The scene owns
\* two texts it can display in the banner, the dialogue text container and the
\* completion text: one of them is visible.
C18_ErrorOrEntryShown ==
    (magic.alive /\ magic.dialogueLength = -1
                 /\ magic.dialogueBannerAnimationTime >= 500) =>
        \/ magic.dialogueTextContainer = "visible"
        \/ magic.completionText = "visible"

\* C19: whatever the outcome of preloading, entering a scene and running its
\* frame and input handlers never ends in an unhandled error, and a scene with
\* a way back to the main menu (the menu itself or a GameScene) is mounted.
C19_NoUnhandledError ==
    /\ ~host.uncaught
    /\ host.scene \in Games \cup {"menu"}

\* C20: in the dialogue scene with N entries the cursor is within 0..N; a
\* pointer input while entry i is shown moves the cursor to i+1 and shows
\* entry i+1, or the complete state when i+1 = N; a pointer input in the
\* complete state resets the cursor to 0 and shows entry 0.
C20_CursorAdvances ==
    (BannerHittable /\ magic.dialogueLength >= 0) =>
        LET N == magic.dialogueLength
            i == magic.currentDialogueIndex
            m == advanceDialogue(World).magic
        IN /\ i \in 0..N
           /\ (i < N /\ EntryShown(magic, i)) =>
                 /\ m.currentDialogueIndex = i + 1
                 /\ IF i + 1 = N THEN CompleteShown(m) ELSE EntryShown(m, i + 1)
           /\ (i = N /\ CompleteShown(magic)) =>
                 /\ m.currentDialogueIndex = 0
                 /\ EntryShown(m, 0)

\* C21: the entry animation of the dialogue scene is sequential: the banner
\* fade-in has advanced only if the overlay darkening ramp is complete (the
\* two ramps never advance on the same tick), and a dialogue entry is shown
\* only if the banner fade-in is complete.
C21_SequentialEntry ==
    magic.alive =>
        /\ magic.dialogueBannerAnimationTime > 0 => magic.overlayAnimationTime >= 500
        /\ (\E i \in 0..NumEntries : EntryShown(magic, i)) =>
               magic.dialogueBannerAnimationTime >= 500

\* The {tag} tokens of a text, by the index of their opening brace: a brace
\* pair around one or more characters, where ok is the set of characters a
\* tag may contain.
Tokens(text, ok) ==
    {i \in 1..Len(text) :
        /\ text[i] = "{"
        /\ \E j \in (i + 2)..Len(text) :
              /\ text[j] = "}"
              /\ \A k \in (i + 1)..(j - 1) : text[k] \in ok}

NoBrace == Chars \ {"{", "}"}

\* The tag of the token at i.
TagAt(text, i) ==
    LET j == CHOOSE j \in (i + 1)..Len(text) :
                 text[j] = "}" /\ \A k \in (i + 1)..(j - 1) : text[k] # "}"
    IN SubSeq(text, i + 1, j - 1)

\* The text in which the tokens have been replaced by the element of their
\* tag: the image when the tag is in the map, the fallback glyph otherwise.
RECURSIVE Substituted(_, _, _, _)
Substituted(text, toks, m, i) ==
    IF i > Len(text) THEN <<>>
    ELSE IF i \in toks
    THEN <<(IF TagAt(text, i) \in DOMAIN m THEN <<"img", m[TagAt(text, i)]>>
            ELSE <<"span">>)>>
         \o Substituted(text, toks, m, i + Len(TagAt(text, i)) + 2)
    ELSE <<(<<"ch", text[i]>>)>> \o Substituted(text, toks, m, i + 1)

\* The output in which each element has been replaced by the token of the
\* tag in `tags` with the element's rank.
RECURSIVE Untagged(_, _)
Untagged(html, tags) ==
    IF html = <<>> THEN <<>>
    ELSE IF Head(html)[1] = "ch" THEN <<Head(html)[2]>> \o Untagged(Tail(html), tags)
    ELSE IF tags = <<>> THEN <<"?">> \o Untagged(Tail(html), tags)
    ELSE <<"{">> \o Head(tags) \o <<"}">> \o Untagged(Tail(html), Tail(tags))

\* The tags of the tokens of a text in text order.
RECURSIVE TagsFrom(_, _, _)
TagsFrom(text, toks, i) ==
    IF i > Len(text) THEN <<>>
    ELSE IF i \in toks THEN <<TagAt(text, i)>> \o TagsFrom(text, toks, i + 1)
    ELSE TagsFrom(text, toks, i + 1)

C23_OneEmitterEmits ==
    /\ flame.alive =>
          /\ flame.normalEmit # flame.intenseEmit
          /\ LET down == flamePointer(World, "pointerdown").flame
                 up == flamePointer(World, "pointerup").flame
                 move == flamePointer(World, "pointermove").flame
             IN /\ down.intenseEmit /\ ~down.normalEmit
                /\ up.normalEmit /\ ~up.intenseEmit
                /\ move.normalEmit = flame.normalEmit
                /\ move.intenseEmit = flame.intenseEmit
          /\ \A z \in Screens :
                /\ flameOnResize(flame, z).normalEmit = flame.normalEmit
                /\ flameOnResize(flame, z).intenseEmit = flame.intenseEmit
          /\ \A r \in FrameRolls :
                LET f == flameUpdate([World EXCEPT !.host.roll = r], 100).flame
                IN f.normalEmit = flame.normalEmit /\ f.intenseEmit = flame.intenseEmit
    /\ (host.scene = "menu" /\ \A c \in particleConfigAssets :
                                  loader.cache[ParticleKey(c)] = "value") =>
          LET f == flameStart(World).flame
          IN f.normalEmit /\ ~f.intenseEmit

\* C23 witness: the intense emitter is the one emitting, after a pointer-down
\* and at least one frame (it has live particles).
C23_Witness ==
    /\ flame.alive
    /\ flame.intenseEmit
    /\ ~flame.normalEmit
    /\ flame.intenseCount > 0
    /\ flame.spawnPos = "pointer"

\* C24: at every frame of the particle scene at most 10 particle sprites are
\* on screen, counting the particles of both emitters.
C24_AtMostTenSprites ==
    flame.alive => flame.normalCount + flame.intenseCount <= 10

\* C25: after every frame of the particle scene the displayed particle total
\* is the sum of the live counts of both emitters; while the intense emitter
\* is the active one the count of the baseline emitter does not grow from one
\* frame to the next, and it is zero once the life of its last particles is
\* over.
C25_DisplayedTotal ==
    flame.alive =>
        /\ flame.particleCountText # -1 =>
              flame.particleCountText = flame.normalCount + flame.intenseCount
        /\ \A r \in FrameRolls :
              LET f == flameUpdate([World EXCEPT !.host.roll = r], 100).flame
              IN /\ f.particleCountText = f.normalCount + f.intenseCount
                 /\ flame.intenseEmit => f.normalCount <= flame.normalCount
        /\ (flame.intenseEmit /\ flame.normalIdle >= MaxLife) => flame.normalCount = 0

\* C25 witness: the intense emitter is active, the baseline emitter still has
\* particles of its own and the text shows the sum of the two counts.
C25_Witness ==
    /\ flame.alive
    /\ flame.intenseEmit
    /\ flame.normalCount > 0
    /\ flame.intenseCount > 0
    /\ flame.particleCountText = flame.normalCount + flame.intenseCount

\* C26: creating and running a particle scene (spawn position, maxParticles
\* forced to 10, texture paths replaced by textures, spawn point moved) leaves
\* the two cached config templates as they were loaded, so a scene created in
\* any later state gets the same two configs as the first one.
C26_TemplatesUnchanged ==
    (\A c \in particleConfigAssets : loader.cache[ParticleKey(c)] = "value") =>
        /\ \A c \in particleConfigAssets : host.configs[CacheRef(c)] = ConfigFile
        /\ LET w == flameStart(World)
           IN /\ w.host.configs[w.flame.normalRef] =
                    [ConfigFile EXCEPT !.pos = host.screen,
                                       !.maxParticles = normalMaxParticles,
                                       !.textures = "textures"]
              /\ w.host.configs[w.flame.intenseRef] =
                    [ConfigFile EXCEPT !.pos = host.screen, !.textures = "textures"]

\* C26 witness: a particle scene is running on configs that differ from the
\* templates in position, particle cap and textures, and its spawn point has
\* been moved by the pointer.
C26_Witness ==
    /\ flame.alive
    /\ flame.spawnPos = "pointer"
    /\ flame.normalCount > 0
    /\ host.configs[flame.normalRef].maxParticles = normalMaxParticles
    /\ host.configs[flame.normalRef].textures = "textures"
    /\ host.configs[flame.normalRef].pos # "file"
    /\ host.configs[CacheRef("flame")] = ConfigFile

\* C27: at every frame of the card-dealing scene the sizes of mainStack,
\* topStack, bottomStack and cardsInHolders add up to the number of cards
\* created, no card is in two of these collections, every card in movingCards
\* is in topStack, bottomStack or cardsInHolders, and a card dealt by a frame
\* is in its destination stack and in flight at the end of that frame.
C27_DealtCardJoinsStack ==
    ace.alive =>
        LET M == Range(ace.mainStack)
            T == Range(ace.topStack)
            B == Range(ace.bottomStack)
            H == Range(ace.cardsInHolders)
        IN /\ Len(ace.mainStack) + Len(ace.topStack) + Len(ace.bottomStack)
                + Len(ace.cardsInHolders) = NumCards
           /\ M \cap T = {} /\ M \cap B = {} /\ M \cap H = {}
           /\ T \cap B = {} /\ T \cap H = {} /\ B \cap H = {}
           /\ \A i \in 1..Len(ace.movingCards) : ace.movingCards[i] \in T \cup B \cup H
           /\ \A d \in FrameMS :
                 LET s == update(ace, d)
                 IN Len(s.mainStack) < Len(ace.mainStack) =>
                       LET c == Last(ace.mainStack)
                       IN /\ c \in Range(s.movingCards)
                          /\ IF ace.currentTarget = "top"
                             THEN c \in Range(s.topStack)
                             ELSE c \in Range(s.bottomStack)

\* C27 witness: cards remain in the main pile while a card dealt to the bottom
\* stack and a card dealt to the top stack are both in flight.
C27_Witness ==
    /\ ace.alive
    /\ Len(ace.mainStack) > 0
    /\ \E c \in Range(ace.movingCards) : c \in Range(ace.bottomStack)
    /\ \E c \in Range(ace.movingCards) : c \in Range(ace.topStack)

\* C28: until the entry animation of the dialogue scene has finished (during
\* the 1000 ms delay and during the banner fade-in) no pointer input has
\* changed the dialogue cursor or rendered an entry or the completion text, so
\* the first entry displayed is entry 0.
C28_NoEarlyAdvance ==
    (magic.alive /\ magic.dialogueBannerAnimationTime < 500) =>
        /\ magic.currentDialogueIndex = 0
        /\ magic.dialogueText = -1
        /\ magic.characterName = -1
        /\ magic.completionText = "none"

\* C29: for every card of the top or the bottom stack the flight target
\* assigned when it was dealt is the slot updateCardPositions assigns to its
\* index for the same canvas size, so a resize to the unchanged size leaves
\* every landed card where it is.
C29_SlotsAgree ==
    ace.alive =>
        LET r == aceOnResize(ace, ace.layout)
        IN \A c \in Range(ace.topStack) \cup Range(ace.bottomStack) :
              /\ r.target[c] = ace.target[c]
              /\ c \notin Range(ace.movingCards) => r.pos[c] = ace.pos[c]

\* The listeners of the live scene that run fn.
Listening(fn) ==
    \E i \in 1..Len(host.ticker.list) :
        host.ticker.list[i] = Listener(fn, GameCtx(host.gameId))

\* C30: the win sequence runs in phases.  At most five cards are in the
\* holders, the i-th of them sent to holder slot i, each taken from the end of
\* the bottom stack; flipping starts only after the five are in the holders;
\* the card in holder slot i gets holder texture i and there is no texture
\* beyond the fifth; the victory-video timer is scheduled only after five
\* flips were started, by the call that removes flipDealtCards from the
\* ticker, so it is scheduled once.
C30_WinPhases ==
    (ace.alive /\ host.scene = "ACE_OF_SHADOWS") =>
        LET H == ace.cardsInHolders
            timer == Listener("AceOfShadows.triggerVictoryVideo", GameCtx(host.gameId))
        IN /\ Len(H) <= NumHolders
           /\ \A i \in 1..Len(H) : ace.target[H[i]] = Place("holder", i - 1, 0, ace.layout)
           /\ \A d \in FrameMS :
                 (Listening("AceOfShadows.dealCardToHolders") /\ Len(ace.bottomStack) > 0) =>
                    LET s == dealCardToHolders(World, d).ace
                    IN \/ s.cardsInHolders = H
                       \/ /\ Len(H) < NumHolders
                          /\ s.cardsInHolders = Append(H, Last(ace.bottomStack))
                          /\ s.bottomStack = Front(ace.bottomStack)
           /\ (ace.flippedCards > 0 \/ Listening("AceOfShadows.flipDealtCards")) =>
                 /\ Len(H) = NumHolders
                 /\ ~Listening("AceOfShadows.dealCardToHolders")
           /\ ace.flippedCards <= NumHolders
           /\ ace.flippedTextures <= ace.flippedCards
           /\ \A i \in 1..Len(H) : ace.textureChanged[H[i]] => ace.texture[H[i]] = i
           /\ \A c \in Cards : ace.textureChanged[c] => c \in Range(H)
           /\ timer \in host.timers =>
                 /\ ace.flippedCards = NumHolders
                 /\ ~Listening("AceOfShadows.flipDealtCards")
           /\ \A d \in FrameMS :
                 Listening("AceOfShadows.flipDealtCards") =>
                    LET w == flipDealtCards(World, d)
                    IN timer \in w.host.timers =>
                          /\ ace.flippedCards = NumHolders
                          /\ w.host.ticker.list # host.ticker.list

\* C30 witness: the five holder cards carry their holder textures and the
\* victory-video timer is pending.
C30_Witness ==
    /\ ace.alive
    /\ host.scene = "ACE_OF_SHADOWS"
    /\ Len(ace.cardsInHolders) = NumHolders
    /\ \A i \in 1..NumHolders : ace.textureChanged[ace.cardsInHolders[i]]
    /\ Listener("AceOfShadows.triggerVictoryVideo", GameCtx(host.gameId)) \in host.timers

====
